---- MODULE Spec2Model ----
(***************************************************************************)
(* ContextEngine MCP gateway: the tool orchestrator (startContextEngine,   *)
(* explicit project-root variant wired into src/index.ts) and the local    *)
(* scaffold synchronizer (lib/documentation-setup.ts).                     *)
(*                                                                         *)
(* Every invocation is an async function: it runs synchronously up to the  *)
(* next await, so one action of the model is "the awaited filesystem or    *)
(* network operation is performed and the code continues up to the next    *)
(* await".  Invocations interleave at these points only.                   *)
(***************************************************************************)
EXTENDS Integers, Sequences, FiniteSets, TLC

\* Bound on the number of filesystem operations that fail for an external
\* reason (permission denied, disk full, ...) in one behaviour.
MaxFaults == 1

\* Bound on the number of invocations made one after the other.
MaxCalls == 2

\* The slots for concurrently running invocations; an invocation takes the
\* lowest free one.
Procs == {1, 2}

\* Project roots handed to the tool; Missing is an omitted argument and
\* Empty the empty string, both falsy in the source.
Roots == {"/a", "/b"}
Missing == "<undefined>"
Empty == ""
RootArgs == {"/a", Missing, Empty}
\* Mutant: only an omitted argument is rejected (projectRoot === undefined).
Falsy_OnlyUndefined(projectRoot) == projectRoot = Missing

\* !projectRoot
Falsy(projectRoot) == projectRoot \in {Missing, Empty}

\* process.cwd(): the directory the server was started in.
Cwd == "/a"

\* Mutant: the argument is ignored and the working directory scaffolded.
RootDir_AlwaysCwd(projectRoot) == Cwd

\* projectRoot || cwd()
RootDir(projectRoot) == IF projectRoot \in {Missing, Empty} THEN Cwd ELSE projectRoot

(***************************************************************************)
(* The filesystem below <root>/.context-engine                             *)
(***************************************************************************)
CONTEXT_ENGINE_DIR == ".context-engine"
IMPLEMENTATION_DIR == ".context-engine/implementation"
REQUIREMENTS_DIR == ".context-engine/requirements"
CONFIG_DIR == ".context-engine/config"
SETTINGS_FILE == ".context-engine/config/settings.json"
WORKFLOWS_FILE == ".context-engine/config/workflows.json"
\* An entry a user put into the implementation directory earlier on.
USER_ENTRY == ".context-engine/implementation/notes.md"

SubDirs == {IMPLEMENTATION_DIR, REQUIREMENTS_DIR, CONFIG_DIR}
ConfigFiles == {SETTINGS_FILE, WORKFLOWS_FILE}
CheckedPaths == {CONTEXT_ENGINE_DIR} \cup SubDirs \cup ConfigFiles
Paths == CheckedPaths \cup {USER_ENTRY}

Parent(path) ==
  CASE path \in SubDirs -> CONTEXT_ENGINE_DIR
    [] path \in ConfigFiles -> CONFIG_DIR
    [] path = USER_ENTRY -> IMPLEMENTATION_DIR
    [] OTHER -> "/"

Absent == [type |-> "absent", doc |-> "", version |-> "", created |-> 0]
Dir == [type |-> "dir", doc |-> "", version |-> "", created |-> 0]
\* A file that was not written by this program.
UserFile == [type |-> "file", doc |-> "user", version |-> "0.9.0", created |-> 0]

\* Mutant: the documents carry another version string.
DefaultContent_OldVersion(path, now) ==
  [type |-> "file",
   doc |-> IF path = SETTINGS_FILE THEN "defaultSettings" ELSE "defaultWorkflows",
   version |-> "0.9.0",
   created |-> now]

\* JSON.stringify(defaultSettings, null, 2) / JSON.stringify(defaultWorkflows,
\* null, 2): the fixed schema is named by doc, the two varying fields kept.
DefaultContent(path, now) ==
  [type |-> "file",
   doc |-> IF path = SETTINGS_FILE THEN "defaultSettings" ELSE "defaultWorkflows",
   version |-> "1.0.0",
   created |-> now]

EmptyTree == [path \in Paths |-> Absent]

\* A tree is well formed when everything that exists lies in a directory.
WellFormed(tree) ==
  /\ tree[CONTEXT_ENGINE_DIR].type \in {"absent", "dir"}
  /\ \A d \in SubDirs : tree[d].type \in {"absent", "dir"}
  /\ \A path \in Paths \ {CONTEXT_ENGINE_DIR} :
       tree[path].type # "absent" => tree[Parent(path)].type = "dir"

InitialTrees ==
  {tree \in [Paths -> {Absent, Dir, UserFile}] :
     /\ WellFormed(tree)
     /\ \A f \in ConfigFiles \cup {USER_ENTRY} : tree[f] \in {Absent, UserFile}}

\* fs.access(path) resolves iff the path exists.
Exists(tree, path) == tree[path].type # "absent"

\* Mutant: the directory is removed and made anew, so what was in it is lost.
MkdirTree_Recreates(tree, path) ==
  [q \in Paths |->
     IF q = path \/ (path \in SubDirs /\ q = CONTEXT_ENGINE_DIR /\ tree[q].type = "absent")
     THEN Dir
     ELSE IF Parent(q) = path \/ Parent(Parent(q)) = path THEN Absent
     ELSE tree[q]]

\* fs.mkdir(path, { recursive: true }): creates the directory and its missing
\* ancestors; an existing directory is left alone and is no error.
MkdirTree(tree, path) ==
  [q \in Paths |->
     IF (q = path \/ (path \in SubDirs /\ q = CONTEXT_ENGINE_DIR)) /\ tree[q].type = "absent"
     THEN Dir ELSE tree[q]]

\* Mutant: without { recursive: true } an existing directory is an EEXIST error.
Mkdir_NotRecursive(tree, path) ==
  [ok |-> tree[path].type = "absent", tree |-> MkdirTree(tree, path)]

\* The outcome of fs.mkdir: a file in the way of the directory is an error.
Mkdir(tree, path) == [ok |-> tree[path].type \in {"absent", "dir"}, tree |-> MkdirTree(tree, path)]

\* Mutant: a file that is there is left as it is.
WriteFile_KeepExisting(tree, path, data) ==
  IF tree[Parent(path)].type = "dir" /\ tree[path].type \in {"absent", "file"}
  THEN [ok |-> TRUE, tree |-> IF tree[path].type = "file" THEN tree
                              ELSE [tree EXCEPT ![path] = data]]
  ELSE [ok |-> FALSE, tree |-> tree]

\* fs.writeFile(path, data): replaces the content; ENOENT without the directory.
WriteFile(tree, path, data) ==
  IF tree[Parent(path)].type = "dir" /\ tree[path].type \in {"absent", "file"}
  THEN [ok |-> TRUE, tree |-> [tree EXCEPT ![path] = data]]
  ELSE [ok |-> FALSE, tree |-> tree]

(***************************************************************************)
(* DocumentationStatus and SetupResult                                     *)
(***************************************************************************)
Flag(path) ==
  CASE path = CONTEXT_ENGINE_DIR -> "exists"
    [] path = IMPLEMENTATION_DIR -> "implementation"
    [] path = REQUIREMENTS_DIR -> "requirements"
    [] path = CONFIG_DIR -> "config"
    [] path = SETTINGS_FILE -> "settings"
    [] OTHER -> "workflows"

AllFalse ==
  [exists |-> FALSE, implementation |-> FALSE, requirements |-> FALSE,
   config |-> FALSE, settings |-> FALSE, workflows |-> FALSE]

AllTrue ==
  [exists |-> TRUE, implementation |-> TRUE, requirements |-> TRUE,
   config |-> TRUE, settings |-> TRUE, workflows |-> TRUE]

\* The order in which checkDocumentationStructure probes the paths.
NextProbe(path) ==
  CASE path = CONTEXT_ENGINE_DIR -> IMPLEMENTATION_DIR
    [] path = IMPLEMENTATION_DIR -> REQUIREMENTS_DIR
    [] path = REQUIREMENTS_DIR -> CONFIG_DIR
    [] path = CONFIG_DIR -> SETTINGS_FILE
    [] OTHER -> WORKFLOWS_FILE

\* Mutant: the two config files are left out of the test.
IsComplete_IgnoresFiles(status) ==
  /\ status.exists
  /\ status.implementation
  /\ status.requirements
  /\ status.config

\* The `if` that returns "already exists and is complete".
IsComplete(status) ==
  /\ status.exists
  /\ status.implementation
  /\ status.requirements
  /\ status.config
  /\ status.settings
  /\ status.workflows

\* "Create structure if it doesn't exist"
StructureMissing(status) ==
  \/ ~status.exists
  \/ ~status.implementation
  \/ ~status.requirements
  \/ ~status.config

\* "Create config files if they don't exist"
ConfigFilesMissing(status) == ~status.settings \/ ~status.workflows

AlreadyCompleteMsg == <<"Documentation structure already exists and is complete">>
SetupCompletedMsg == <<"Documentation structure setup completed successfully">>
SetupRootRequiredMsg == <<"Project root directory is required for documentation structure setup">>
StartRootRequiredMsg == <<"Project root directory is required for context engine initialization">>

\* `${error}` for an Error object: "Error: " followed by its message.
ErrorToString(message) == <<"Error: ">> \o message

\* What `await setupDocumentationStructure(...)` settled with: nothing yet, a
\* SetupResult (returned), or an Error with the given message (thrown).
NoResult ==
  [returned |-> FALSE, thrown |-> FALSE, success |-> FALSE, message |-> <<>>, status |-> AllFalse]
SetupResult(success, message, status) ==
  [returned |-> TRUE, thrown |-> FALSE, success |-> success, message |-> message, status |-> status]
SetupError(message) ==
  [returned |-> FALSE, thrown |-> TRUE, success |-> FALSE, message |-> message, status |-> AllFalse]

(***************************************************************************)
(* The remote API                                                          *)
(***************************************************************************)
\* What the remote side can answer to GET {baseUrl}/api/start-context-engine.
Statuses == {200, 401, 404, 429, 500}
Bodies == {"", "No content available", "No context data available", "Context engine started"}
NetworkError == [kind |-> "reject", status |-> 0, body |-> "fetch failed"]
Responses ==
  {NetworkError}
    \cup {[kind |-> "response", status |-> 200, body |-> b] : b \in Bodies}
    \cup {[kind |-> "response", status |-> s, body |-> ""] : s \in Statuses \ {200}}
NoResponse == [kind |-> "none", status |-> 0, body |-> ""]

handleApiError(errorCode, operation) ==
  CASE errorCode = 429 -> <<"Rate limited due to too many requests. Please try again later.">>
    [] errorCode = 401 -> <<"Unauthorized. Please check your API key.">>
    [] errorCode = 404 -> <<"API endpoint not found. Please check the server URL and endpoint path.">>
    [] OTHER -> <<"Failed to ", operation, ". Please try again later. Error code: ", ToString(errorCode)>>

\* response.ok
ResponseOk(response) == response.kind = "response" /\ response.status \in 200..299

\* The message of the error that makeApiRequest (or fetch itself) throws.
ApiErrorMessage(response) ==
  IF response.kind = "reject" THEN <<response.body>>
  ELSE handleApiError(response.status, "start context engine")

NoConfirmationMsg == <<"Context engine start request sent but no confirmation available.">>

\* !text || text === "No content available"
ApiResponseText(text) ==
  IF text = "" \/ text = "No content available" THEN NoConfirmationMsg ELSE <<text>>

FailurePrefix == "(cross mark) Failed to setup local documentation structure: "
FolderPrefix == "(blank line)(folder) Local Documentation Structure: "
WarningPrefix == "(warning sign)  ContextEngine API call failed: "

(***************************************************************************)
(* HTTP requests and what the router reads from them                       *)
(***************************************************************************)
\* A string is the sequence of its parts.  A part is a blank, a comma, an
\* IPv4 address in dotted form (with or without the ::ffff: prefix of an
\* IPv4-mapped IPv6 address in front) or some other text.
Part(kind, mapped, octets, text) ==
  [kind |-> kind, mapped |-> mapped, octets |-> octets, text |-> text]
Space == Part("space", FALSE, <<>>, " ")
Comma == Part("comma", FALSE, <<>>, ",")
Text(text) == Part("text", FALSE, <<>>, text)
Addr(mapped, octets) == Part("addr", mapped, octets, "")

\* The value a header name or a socket field holds: none, one string, or a
\* list of strings.
NoHeader == [shape |-> "absent", items |-> <<>>]
Str(s) == [shape |-> "string", items |-> <<s>>]
List(items) == [shape |-> "list", items |-> items]

\* JavaScript truthiness of such a value: undefined and "" are falsy, a list
\* (the empty one too) is truthy.
Truthy(value) ==
  \/ value.shape = "list"
  \/ value.shape = "string" /\ value.items[1] # <<>>

\* a || b on such values.
Either(a, b) == IF Truthy(a) THEN a ELSE b

\* ip.replace(/^::ffff:/, "")
StripMapped(address) ==
  IF address # <<>> /\ address[1].kind = "addr" /\ address[1].mapped
  THEN <<Addr(FALSE, address[1].octets)>> \o Tail(address)
  ELSE address

\* startsWith("10."), startsWith("192.168."), /^172\.(1[6-9]|2[0-9]|3[0-1])\./
IsPrivate(plainIp) ==
  /\ plainIp # <<>>
  /\ plainIp[1].kind = "addr"
  /\ ~plainIp[1].mapped
  /\ LET octets == plainIp[1].octets
     IN \/ octets[1] = 10
        \/ octets[1] = 192 /\ octets[2] = 168
        \/ octets[1] = 172 /\ octets[2] \in 16..31

\* String.prototype.trim on the parts of a string.
RECURSIVE TrimStart(_)
TrimStart(value) ==
  IF value # <<>> /\ Head(value).kind = "space" THEN TrimStart(Tail(value)) ELSE value

RECURSIVE TrimEnd(_)
TrimEnd(value) ==
  IF value # <<>> /\ value[Len(value)].kind = "space"
  THEN TrimEnd(SubSeq(value, 1, Len(value) - 1))
  ELSE value

Trim(value) == TrimEnd(TrimStart(value))

\* ips.split(",").map((ip) => ip.trim())
RECURSIVE SplitTrim(_)
SplitTrim(ips) ==
  IF \E i \in 1..Len(ips) : ips[i].kind = "comma"
  THEN LET i == CHOOSE i \in 1..Len(ips) :
                  /\ ips[i].kind = "comma"
                  /\ \A j \in 1..(i - 1) : ips[j].kind # "comma"
       IN <<Trim(SubSeq(ips, 1, i - 1))>> \o SplitTrim(SubSeq(ips, i + 1, Len(ips)))
  ELSE <<Trim(ips)>>

\* The index of the first address of the list that is not private, 0 if none.
RECURSIVE FirstPublic(_, _)
FirstPublic(ipList, i) ==
  IF i > Len(ipList) THEN 0
  ELSE IF ~IsPrivate(StripMapped(ipList[i])) THEN i
  ELSE FirstPublic(ipList, i + 1)

\* A string that is undefined or "" is <<>>: the code that receives one only
\* tests it for truth.
NoValue == <<>>

\* What a function call ends in: a returned value or a thrown TypeError.
Returns(value) == [threw |-> FALSE, value |-> value]
Throws == [threw |-> TRUE, value |-> NoValue]

\* headers: what req.headers and req.socket hold.
\*   forwarded, XForwardedFor         - x-forwarded-for, X-Forwarded-For
\*   socket, remoteAddress            - req.socket, req.socket.remoteAddress
\*   authorization                    - authorization
\*   ContextEngineAPIKey, contextKey  - ContextEngine-API-Key, context-engine-api-key
\*   XAPIKey, xApiKey                 - X-API-Key, x-api-key
getClientIp(headers) ==
  LET forwardedFor == Either(headers.forwarded, headers.XForwardedFor)
  IN IF Truthy(forwardedFor)
     THEN IF forwardedFor.items = <<>> THEN Throws
          ELSE LET ipList == SplitTrim(forwardedFor.items[1])
                   i == FirstPublic(ipList, 1)
               IN IF i > 0 THEN Returns(StripMapped(ipList[i]))
                  ELSE Returns(StripMapped(ipList[1]))
     ELSE IF headers.socket /\ Truthy(headers.remoteAddress)
          THEN Returns(StripMapped(headers.remoteAddress.items[1]))
          ELSE Returns(NoValue)

\* if (!value) return undefined; return typeof value === "string" ? value : value[0]
extractHeaderValue(value) ==
  IF ~Truthy(value) \/ value.items = <<>> THEN NoValue ELSE value.items[1]

\* Mutant: the prefix is recognised in any case and the rest is not trimmed.
extractBearerToken_AnyCase(authHeader) ==
  LET header == extractHeaderValue(authHeader)
  IN IF header = NoValue THEN NoValue
     ELSE IF Head(header) \in {Text("Bearer "), Text("bearer "), Text("BEARER ")}
     THEN Tail(header)
     ELSE header

\* header.startsWith("Bearer ") ? header.substring(7).trim() : header
extractBearerToken(authHeader) ==
  LET header == extractHeaderValue(authHeader)
  IN IF header = NoValue THEN NoValue
     ELSE IF Head(header) = Text("Bearer ") THEN Trim(Tail(header))
     ELSE header

\* a || b on strings: the first operand that is neither undefined nor "".
OrElse(a, b) == IF a = NoValue THEN b ELSE a

\* Mutant: x-api-key is looked at before the Authorization header.
extractApiKey_XApiKeyFirst(headers) ==
  OrElse(extractHeaderValue(headers.xApiKey),
    OrElse(extractBearerToken(headers.authorization),
      OrElse(extractHeaderValue(headers.ContextEngineAPIKey),
        OrElse(extractHeaderValue(headers.contextKey), extractHeaderValue(headers.XAPIKey)))))

extractApiKey(headers) ==
  OrElse(extractBearerToken(headers.authorization),
    OrElse(extractHeaderValue(headers.ContextEngineAPIKey),
      OrElse(extractHeaderValue(headers.contextKey),
        OrElse(extractHeaderValue(headers.XAPIKey), extractHeaderValue(headers.xApiKey)))))

\* The headers of a request read from the wire: the parser stores every
\* name in lower case, so the names with capitals are never keys.
WireHeaders(forwarded, remoteAddress, authorization, contextKey, xApiKey) ==
  [forwarded |-> forwarded, XForwardedFor |-> NoHeader,
   socket |-> TRUE, remoteAddress |-> remoteAddress,
   authorization |-> authorization,
   ContextEngineAPIKey |-> NoHeader, contextKey |-> contextKey,
   XAPIKey |-> NoHeader, xApiKey |-> xApiKey]

\* Two callers.
HeadersA ==
  WireHeaders(Str(<<Addr(FALSE, <<10, 0, 0, 1>>), Comma, Space, Addr(TRUE, <<203, 0, 113, 5>>)>>),
              Str(<<Addr(TRUE, <<127, 0, 0, 1>>)>>),
              Str(<<Text("Bearer "), Space, Text("key-A"), Space>>),
              NoHeader,
              Str(<<Text("key-X")>>))
HeadersB ==
  WireHeaders(NoHeader,
              Str(<<Addr(TRUE, <<198, 51, 100, 7>>)>>),
              NoHeader,
              NoHeader,
              Str(<<Text("key-B")>>))

\* Host headers: a usual one, none, and one that is no host ("a b").
GoodHost == "localhost:3000"
BadHost == "a b"

\* req.url: the path and the sessionId parameter of the query.  "//" is a
\* request target that is no URL relative to any base.
Url(path, sessionId) == [path |-> path, sessionId |-> sessionId]
NoUrl == Url(Missing, Missing)

\* new URL(req.url || "", `http://${req.headers.host}`): pathname and
\* searchParams.get("sessionId") ?? "", or a TypeError (ok = FALSE).
ParseUrl(url, host) ==
  IF host = BadHost \/ url.path = "//"
  THEN [ok |-> FALSE, pathname |-> "", sessionId |-> ""]
  ELSE [ok |-> TRUE,
        pathname |-> IF url.path = Missing THEN "/" ELSE url.path,
        sessionId |-> IF url.sessionId = Missing THEN "" ELSE url.sessionId]

\* What the protocol library finds in the body of a request.
ToolCallBody == [rpc |-> "tools/call", projectRoot |-> "/a"]
OtherBody == [rpc |-> "initialize", projectRoot |-> Missing]

Request(method, url, host, headers, body) ==
  [method |-> method, url |-> url, host |-> host, headers |-> headers, body |-> body]

\* The requests sent to the server.
Requests ==
  \* the request/response tool channel
  {Request("POST", Url("/mcp", Missing), GoodHost, h, b) :
     h \in {HeadersA, HeadersB}, b \in {ToolCallBody, OtherBody}}
  \cup
  \* event-stream subscriptions
  {Request("GET", Url("/sse", Missing), GoodHost, h, OtherBody) : h \in {HeadersA, HeadersB}}
  \cup
  \* messages posted to a session
  {Request("POST", Url("/messages", sid), GoodHost, h, ToolCallBody) :
     sid \in {"1", "2"}, h \in {HeadersA, HeadersB}}
  \cup
  {Request("POST", Url("/messages", sid), GoodHost, HeadersA, ToolCallBody) :
     sid \in {Missing, Empty, "toString"}}
  \cup
  \* the liveness probe, other paths and methods, no URL at all
  {Request(m, Url(path, Missing), GoodHost, HeadersB, OtherBody) :
     m \in {"GET", "POST"}, path \in {"/ping", "/nowhere"}}
  \cup
  {Request("POST", Url("/sse", Missing), GoodHost, HeadersB, OtherBody),
   Request("GET", Url("/messages", "1"), GoodHost, HeadersB, OtherBody),
   Request("GET", NoUrl, Missing, HeadersB, OtherBody)}
  \cup
  \* preflight requests
  {Request("OPTIONS", Url(path, Missing), GoodHost, HeadersA, OtherBody) :
     path \in {"/mcp", "/sse", "/messages", "/nowhere", "//"}}
  \cup
  \* requests whose URL cannot be built
  {Request("GET", Url("//", Missing), GoodHost, HeadersA, OtherBody),
   Request("GET", Url("/ping", Missing), BadHost, HeadersA, OtherBody),
   Request("POST", Url("/messages", "1"), BadHost, HeadersA, ToolCallBody)}

\* The ServerResponse of a request.
NewResponse == [headersSent |-> FALSE, statusCode |-> 0, body |-> <<>>, cors |-> FALSE]

\* setupCorsHeaders: the four Access-Control headers are set.
setupCorsHeaders(res) == [res EXCEPT !.cors = TRUE]

\* res.writeHead(statusCode); res.end(message)
sendErrorResponse(res, statusCode, message) ==
  [res EXCEPT !.headersSent = TRUE, !.statusCode = statusCode, !.body = message]

\* res.writeHead(200); res.end()
handlePreflightRequest(res) == [res EXCEPT !.headersSent = TRUE, !.statusCode = 200]

\* cliOptions.serverUrl and process.env.CONTEXT_ENGINE_SERVER_URL of this run.
CliServerUrl == Missing
EnvServerUrl == "https://ce.example"
DEFAULT_CONTEXT_ENGINE_API_BASE_URL == "https://contextengine.in"

\* Mutant: the environment is asked before the value of the command line.
FinalServerUrl_EnvFirst(serverUrl, env) ==
  IF env \notin {Missing, Empty} THEN env
  ELSE IF serverUrl \notin {Missing, Empty} THEN serverUrl
  ELSE DEFAULT_CONTEXT_ENGINE_API_BASE_URL

\* serverUrl || process.env.CONTEXT_ENGINE_SERVER_URL || "https://contextengine.in"
FinalServerUrl(serverUrl, env) ==
  IF serverUrl \notin {Missing, Empty} THEN serverUrl
  ELSE IF env \notin {Missing, Empty} THEN env
  ELSE DEFAULT_CONTEXT_ENGINE_API_BASE_URL

\* The server instance made for one connection: the values its tool handler
\* closes over.  owner is the number of the request it was made for, env the
\* value of process.env.CONTEXT_ENGINE_SERVER_URL when it is made.
NoServer == [owner |-> 0, clientIp |-> NoValue, apiKey |-> NoValue, serverUrl |-> Missing]
createServerInstanceWith(env, owner, clientIp, apiKey, serverUrl) ==
  [owner |-> owner, clientIp |-> clientIp, apiKey |-> apiKey,
   serverUrl |-> FinalServerUrl(serverUrl, env)]

createServerInstance(owner, clientIp, apiKey, serverUrl) ==
  createServerInstanceWith(EnvServerUrl, owner, clientIp, apiKey, serverUrl)

\* Names every object inherits from Object.prototype.
ObjectPrototypeKeys == {"constructor", "toString", "__proto__"}

\* sseTransports[sessionId] for the table with the given keys: the transport
\* of the session, a member inherited from Object.prototype, or undefined.
TableLookup(keys, sessionId) ==
  IF sessionId \in keys THEN "transport"
  ELSE IF sessionId \in ObjectPrototypeKeys THEN "inherited"
  ELSE "undefined"

(***************************************************************************)
(* The request listener of createServerWithFallback, up to its first await *)
(***************************************************************************)
NoRequest == Request("", NoUrl, Missing, HeadersB, OtherBody)

\* A request being handled: where its handler stands (pc), its number in
\* the order of arrival (seq), the server instance made for it or found for
\* it, the session it posts to, and its response so far.
FreeSlot ==
  [pc |-> "free", seq |-> 0, request |-> NoRequest, server |-> NoServer,
   session |-> 0, res |-> NewResponse]

\* An event-stream session: its identifier, whether its connection is still
\* open, the server instance connected to its transport, and the request
\* that opened it.
Session(id, server, request) ==
  [id |-> id, open |-> TRUE, server |-> server, request |-> request]

\* What is known of the handler that ended last: how it ended (threw is
\* "no", "caught" by the try block or "escaped" from the listener), whether
\* the response had been started when it threw, whether it read the caller's
\* address and key, how many server instances it made, the keys of the
\* session table when it began and when it ended, and whether a transport
\* was handed the request.
NoHandled ==
  [seq |-> 0, request |-> NoRequest, res |-> NewResponse, threw |-> "no",
   startedAtThrow |-> FALSE, extracted |-> FALSE, instances |-> 0,
   keysBefore |-> {}, keysAfter |-> {}, handedOver |-> FALSE]

Handled(seq, request, res, threw, startedAtThrow, extracted, instances, keysBefore, keysAfter, handedOver) ==
  [seq |-> seq, request |-> request, res |-> res, threw |-> threw,
   startedAtThrow |-> startedAtThrow,
   extracted |-> extracted, instances |-> instances,
   keysBefore |-> keysBefore, keysAfter |-> keysAfter, handedOver |-> handedOver]

\* The catch block of the listener: 500 unless the response has been started.
CatchAll(res) ==
  IF ~res.headersSent THEN sendErrorResponse(res, 500, <<"Internal Server Error">>) ELSE res

\* What one run of the listener up to its first await comes to: the handler
\* has ended ("ended"), awaits the protocol library ("pending"), or has let an
\* exception out ("escaped"); with the slot of the request, the session
\* table and sessions, and the note on the ended handler.
Step(kind, slot, keys, sess, handled) ==
  [kind |-> kind, slot |-> slot, keys |-> keys, sess |-> sess, handled |-> handled]

Ended(seq, request, res, threw, instances, keysBefore, keys, sess) ==
  Step("ended", FreeSlot, keys, sess,
       Handled(seq, request, res, threw, FALSE, TRUE, instances, keysBefore, keys, FALSE))

\* Mutant: the requests are served by the one instance made when the process
\* started, as on the stdio channel.
handleHttpTransport_OneInstance(seq, request, res, clientIp, apiKey, serverUrl, keys, sess) ==
  Step("pending",
       [pc |-> "connect", seq |-> seq, request |-> request,
        server |-> createServerInstance(0, NoValue, NoValue, serverUrl),
        session |-> 0, res |-> res],
       keys, sess, NoHandled)

\* handleHttpTransport up to `await requestServer.connect(transport)`.
handleHttpTransport(seq, request, res, clientIp, apiKey, serverUrl, keys, sess) ==
  Step("pending",
       [pc |-> "connect", seq |-> seq, request |-> request,
        server |-> createServerInstance(seq, clientIp, apiKey, serverUrl),
        session |-> 0, res |-> res],
       keys, sess, NoHandled)

\* The identifier the transport gives the next session (a random UUID in the
\* library; here the number of the session).
NewSessionId(sess) == ToString(Len(sess) + 1)

\* handleSseTransport: the transport is stored under its session identifier,
\* the close listener is registered, a server instance is made and connected,
\* which starts the event stream - unless the library throws.
handleSseTransport(seq, request, res, clientIp, apiKey, serverUrl, keys, sess, libraryThrows) ==
  LET sessionId == NewSessionId(sess)
      server == createServerInstance(seq, clientIp, apiKey, serverUrl)
      table == keys \cup {sessionId}
      all == Append(sess, Session(sessionId, server, request))
  IN IF libraryThrows
     THEN Ended(seq, request, CatchAll(res), "caught", 1, keys, table, all)
     ELSE Ended(seq, request,
                [res EXCEPT !.headersSent = TRUE, !.statusCode = 200,
                            !.body = <<"event: endpoint /messages?sessionId=", sessionId>>],
                "no", 1, keys, table, all)

\* The session with the given identifier.
SessionIndex(sess, sessionId) == CHOOSE i \in 1..Len(sess) : sess[i].id = sessionId

\* Mutant: the message is served by an instance made from the headers of
\* the POST request.
handleSsePostMessage_OwnIdentity(seq, request, res, sessionId, keys, sess) ==
  IF sessionId = ""
  THEN Ended(seq, request, sendErrorResponse(res, 400, <<"Missing sessionId parameter">>),
             "no", 0, keys, keys, sess)
  ELSE CASE TableLookup(keys, sessionId) = "undefined" ->
              Ended(seq, request,
                    sendErrorResponse(res, 400,
                                      <<"No transport found for sessionId: ", sessionId>>),
                    "no", 0, keys, keys, sess)
         [] TableLookup(keys, sessionId) = "inherited" ->
              Ended(seq, request, CatchAll(res), "caught", 0, keys, keys, sess)
         [] OTHER ->
              Step("pending",
                   [pc |-> "post", seq |-> seq, request |-> request,
                    server |-> createServerInstance(seq, getClientIp(request.headers).value,
                                                    extractApiKey(request.headers), CliServerUrl),
                    session |-> SessionIndex(sess, sessionId), res |-> res],
                   keys, sess, NoHandled)

\* handleSsePostMessage up to `await sseTransport.handlePostMessage(req, res)`.
\* A name inherited from Object.prototype is found in the table, and calling
\* handlePostMessage on what was found is a TypeError.
handleSsePostMessage(seq, request, res, sessionId, keys, sess) ==
  IF sessionId = ""
  THEN Ended(seq, request, sendErrorResponse(res, 400, <<"Missing sessionId parameter">>),
             "no", 0, keys, keys, sess)
  ELSE CASE TableLookup(keys, sessionId) = "undefined" ->
              Ended(seq, request,
                    sendErrorResponse(res, 400,
                                      <<"No transport found for sessionId: ", sessionId>>),
                    "no", 0, keys, keys, sess)
         [] TableLookup(keys, sessionId) = "inherited" ->
              Ended(seq, request, CatchAll(res), "caught", 0, keys, keys, sess)
         [] OTHER ->
              Step("pending",
                   [pc |-> "post", seq |-> seq, request |-> request,
                    server |-> sess[SessionIndex(sess, sessionId)].server,
                    session |-> SessionIndex(sess, sessionId), res |-> res],
                   keys, sess, NoHandled)

\* The listener passed to createServer, for request number seq, with the
\* session table `keys` and the sessions `sess`.
RequestListener(seq, request, keys, sess, libraryThrows) ==
  LET parsed == ParseUrl(request.url, request.host)
      url == parsed.pathname
      res == setupCorsHeaders(NewResponse)
      clientIp == getClientIp(request.headers).value
      apiKey == extractApiKey(request.headers)
  IN IF ~parsed.ok
     THEN Step("escaped", FreeSlot, keys, sess,
               Handled(seq, request, NewResponse, "escaped", FALSE, FALSE, 0, keys, keys, FALSE))
     ELSE IF request.method = "OPTIONS"
     THEN Step("ended", FreeSlot, keys, sess,
               Handled(seq, request, handlePreflightRequest(res), "no", FALSE, FALSE, 0, keys,
                       keys, FALSE))
     ELSE IF getClientIp(request.headers).threw
     THEN Ended(seq, request, CatchAll(res), "caught", 0, keys, keys, sess)
     ELSE CASE url = "/mcp" ->
                 handleHttpTransport(seq, request, res, clientIp, apiKey, CliServerUrl, keys, sess)
            [] url = "/sse" /\ request.method = "GET" ->
                 handleSseTransport(seq, request, res, clientIp, apiKey, CliServerUrl,
                                    keys, sess, libraryThrows)
            [] url = "/messages" /\ request.method = "POST" ->
                 handleSsePostMessage(seq, request, res, parsed.sessionId, keys, sess)
            [] url = "/ping" ->
                 Ended(seq, request,
                       [res EXCEPT !.headersSent = TRUE, !.statusCode = 200, !.body = <<"pong">>],
                       "no", 0, keys, keys, sess)
            [] OTHER ->
                 Ended(seq, request, sendErrorResponse(res, 404, <<"Not found">>),
                       "no", 0, keys, keys, sess)

(***************************************************************************)
(* State                                                                   *)
(***************************************************************************)
VARIABLES
  fs,       \* fs[dir]: the tree below dir/.context-engine, for each directory
  clock,    \* the wall clock read by new Date()
  faults,   \* number of externally caused filesystem failures so far
  orphans,  \* operations of a Promise.all that already rejected, still running
  inv,      \* inv[p]: the locals and the position of invocation p
  ncalls,   \* number of invocations made so far
  httpServer,     \* the HTTP server and its process: state, the port it listens on
                  \* or tries, the ports it called listen for and the errors it got
  busyPorts,      \* the ports other processes listen on
  sseTransports,  \* the keys of the session table
  sessions,       \* the event-stream sessions opened so far, in order
  reqs,           \* reqs[p]: the request whose handler awaits in slot p
  last,           \* the handler that ended last
  nreq,           \* number of requests received so far
  call,           \* the function studied on its own and its arguments
  ret             \* what that call has come to

toolVars == <<fs, clock, faults, orphans, inv, ncalls>>
httpVars == <<httpServer, busyPorts, sseTransports, sessions, reqs, last, nreq>>
callVars == <<call, ret>>
vars == <<fs, clock, faults, orphans, inv, ncalls,
          httpServer, busyPorts, sseTransports, sessions, reqs, last, nreq, call, ret>>

\* What was handed to the API client for the request: the URL and the
\* arguments of generateHeaders.
NoSent == [url |-> <<>>, clientIp |-> NoValue, apiKey |-> NoValue]

ZeroCalls == [setup |-> 0, access |-> 0, mkdir |-> 0, writeFile |-> 0, fetch |-> 0]
NoOutcome == [type |-> "none", text |-> <<>>]

\* The locals of an invocation that has not been called yet.
\*   calls    - how often the invocation entered setupDocumentationStructure
\*              and performed fs.access, fs.mkdir, fs.writeFile and fetch
\*   pre      - the tree of its directory when it was called
\*   opFailed - some filesystem operation of the invocation failed
\*   clientIp, apiKey, serverUrl - the arguments of startContextEngine
\*   sent     - what the invocation handed to the API client
\*   denied   - the paths whose fs.access was rejected from outside during
\*              the check that is running or ran last
Idle ==
  [pc |-> "idle", kind |-> "none", root |-> Empty, phase |-> "none",
   probe |-> CONTEXT_ENGINE_DIR, cur |-> AllFalse, status |-> AllFalse,
   inflight |-> {}, stamp |-> 0, error |-> <<>>, setupResult |-> NoResult,
   documentationStatus |-> <<>>, apiResponse |-> <<>>, response |-> NoResponse,
   outcome |-> NoOutcome, calls |-> ZeroCalls, pre |-> EmptyTree, opFailed |-> FALSE,
   denied |-> {}, clientIp |-> NoValue, apiKey |-> NoValue, serverUrl |-> Missing,
   sent |-> NoSent]

FsErrorMsg == <<"EACCES: permission denied">>

(***************************************************************************)
(* Continuations: what an invocation does, without awaiting, after an      *)
(* awaited operation has settled.                                          *)
(***************************************************************************)
Returned(l, text) == [l EXCEPT !.pc = "done", !.outcome = [type |-> "returned", text |-> text]]
Thrown(l, message) == [l EXCEPT !.pc = "done", !.outcome = [type |-> "thrown", text |-> message]]

\* checkDocumentationStructure is entered: the first fs.access is awaited.
StartCheck(l, phase) ==
  [l EXCEPT !.pc = "access", !.phase = phase, !.probe = CONTEXT_ENGINE_DIR, !.cur = AllFalse,
            !.denied = {}]

\* buildApiUrl(endpoint, {}, serverUrl): `${serverUrl || DEFAULT}/api/${endpoint}`
buildApiUrl(endpoint, serverUrl) ==
  <<IF serverUrl \in {Missing, Empty} THEN DEFAULT_CONTEXT_ENGINE_API_BASE_URL ELSE serverUrl,
    "/api/", endpoint>>

\* The URL is built and generateHeaders(clientIp, apiKey, ...) is called
\* right before makeApiRequest is awaited.
PrepareRequest(l) ==
  [l EXCEPT !.sent = [url |-> buildApiUrl("start-context-engine", l.serverUrl),
                      clientIp |-> l.clientIp, apiKey |-> l.apiKey],
            !.pc = "fetch"]

\* Mutant: the failed setup is only noted and the API call is made all the same.
startAfterSetup_NoFailFast(l, result) ==
  [l EXCEPT !.setupResult = result,
            !.documentationStatus = <<FolderPrefix>> \o result.message,
            !.pc = "fetch"]

\* Mutant: the remote-first reading - the failed setup becomes a marked
\* status line and the API call is made, its response leading the result.
startAfterSetup_ApiAnyway(l, result) ==
  [l EXCEPT !.setupResult = result,
            !.documentationStatus =
               <<IF result.success THEN FolderPrefix ELSE WarningPrefix>> \o result.message,
            !.pc = "fetch"]

\* startContextEngine once `await setupDocumentationStructure(projectRoot)` settled
\* with a result.
startAfterSetup(l, result) ==
  IF result.success
  THEN PrepareRequest([l EXCEPT !.setupResult = result,
                                !.documentationStatus = <<FolderPrefix>> \o result.message])
  ELSE Returned([l EXCEPT !.setupResult = result], <<FailurePrefix>> \o result.message)

\* ... and when it settled with an exception.
startCatchSetup(l, message) ==
  Returned([l EXCEPT !.setupResult = SetupError(message)], <<FailurePrefix>> \o message)

SetupReturn(l, result) ==
  IF l.kind = "start" THEN startAfterSetup(l, result)
  ELSE Returned([l EXCEPT !.setupResult = result], result.message)

SetupThrow(l, message) ==
  IF l.kind = "start" THEN startCatchSetup(l, message)
  ELSE Thrown([l EXCEPT !.setupResult = SetupError(message)], message)

\* createDefaultConfigFiles up to its Promise.all: both documents are built,
\* with the creation time read now, and both writes are started.
createDefaultConfigFiles(l, now) ==
  [l EXCEPT !.pc = "writeFile", !.inflight = ConfigFiles, !.stamp = now]

\* createDocumentationStructure up to its first await.
createDocumentationStructure(l) == [l EXCEPT !.pc = "mkdirBase"]

\* Mutant: the config files are written only when the structure was there.
AfterStructure_EitherOr(l, now) ==
  IF ConfigFilesMissing(l.status) /\ ~StructureMissing(l.status)
  THEN createDefaultConfigFiles(l, now)
  ELSE StartCheck(l, "final")

\* setupDocumentationStructure after createDocumentationStructure (if it ran).
AfterStructure(l, now) ==
  IF ConfigFilesMissing(l.status) THEN createDefaultConfigFiles(l, now)
  ELSE StartCheck(l, "final")

\* Mutant: the catch block logs the error and throws it on.
Caught_Rethrows(l, message) == SetupThrow([l EXCEPT !.error = message, !.inflight = {}], message)

\* The catch block of setupDocumentationStructure: a last check is taken.
Caught(l, message) == StartCheck([l EXCEPT !.error = message, !.inflight = {}], "error")

\* createDefaultConfigFiles returns: to setupDocumentationStructure, which
\* takes its final check, or to a caller of its own (kind "config").
ConfigFilesReturn(l) ==
  IF l.kind = "config" THEN Returned(l, <<>>) ELSE StartCheck(l, "final")

\* createDefaultConfigFiles throws: into the catch block of
\* setupDocumentationStructure, or to a caller of its own.
ConfigFilesThrow(l, message) ==
  IF l.kind = "config" THEN Thrown([l EXCEPT !.inflight = {}], message) ELSE Caught(l, message)

\* checkDocumentationStructure returned its status: to setupDocumentationStructure
\* (phases "initial", "final", "error") or to a caller of its own ("check").
AfterCheck(l, status, now) ==
  CASE l.phase = "initial" ->
         LET m == [l EXCEPT !.status = status]
         IN IF IsComplete(status)
            THEN SetupReturn(m, SetupResult(TRUE, AlreadyCompleteMsg, status))
            ELSE IF StructureMissing(status) THEN createDocumentationStructure(m)
            ELSE AfterStructure(m, now)
    [] l.phase = "final" ->
         SetupReturn(l, SetupResult(TRUE, SetupCompletedMsg, status))
    [] l.phase = "check" ->
         Returned([l EXCEPT !.status = status], <<>>)
    [] OTHER ->
         SetupReturn(l, SetupResult(FALSE,
                       <<"Failed to setup documentation structure: ">> \o ErrorToString(l.error),
                       status))

\* Mutant: one fs.access without its .catch(() => false); the rejection leaves
\* checkDocumentationStructure as an exception.
AfterAccess_Uncaught(l, found, fault, now) ==
  LET m == [l EXCEPT !.cur[Flag(l.probe)] = found,
                     !.calls.access = @ + 1,
                     !.opFailed = @ \/ fault,
                     !.denied = IF fault THEN @ \cup {l.probe} ELSE @]
  IN IF fault /\ l.probe = CONFIG_DIR THEN Thrown(m, FsErrorMsg)
     ELSE IF l.probe = CONTEXT_ENGINE_DIR /\ ~found THEN AfterCheck(m, AllFalse, now)
     ELSE IF l.probe = WORKFLOWS_FILE THEN AfterCheck(m, m.cur, now)
     ELSE [m EXCEPT !.probe = NextProbe(l.probe)]

\* Mutant: without the early return for a base directory that was not found.
AfterAccess_ProbesOn(l, found, fault, now) ==
  LET m == [l EXCEPT !.cur[Flag(l.probe)] = found,
                     !.calls.access = @ + 1,
                     !.opFailed = @ \/ fault,
                     !.denied = IF fault THEN @ \cup {l.probe} ELSE @]
  IN IF l.probe = WORKFLOWS_FILE THEN AfterCheck(m, m.cur, now)
     ELSE [m EXCEPT !.probe = NextProbe(l.probe)]

\* checkDocumentationStructure once one fs.access settled.
AfterAccess(l, found, fault, now) ==
  LET m == [l EXCEPT !.cur[Flag(l.probe)] = found,
                     !.calls.access = @ + 1,
                     !.opFailed = @ \/ fault,
                     !.denied = IF fault THEN @ \cup {l.probe} ELSE @]
  IN IF l.probe = CONTEXT_ENGINE_DIR /\ ~found THEN AfterCheck(m, AllFalse, now)
     ELSE IF l.probe = WORKFLOWS_FILE THEN AfterCheck(m, m.cur, now)
     ELSE [m EXCEPT !.probe = NextProbe(l.probe)]

\* checkDocumentationStructure, called on its own, from its entry to its first
\* await.
checkDocumentationStructure(l) == StartCheck(l, "check")

\* setupDocumentationStructure from its entry to its first await.
setupDocumentationStructure(l) ==
  LET m == [l EXCEPT !.calls.setup = @ + 1]
  IN IF Falsy(l.root) THEN SetupThrow(m, SetupRootRequiredMsg)
     ELSE StartCheck(m, "initial")

\* startContextEngine from its entry to its first await.
startContextEngine(l) ==
  IF Falsy(l.root) THEN Thrown(l, StartRootRequiredMsg)
  ELSE setupDocumentationStructure(l)

\* Mutant: a failed API call is made again.
AfterFetch_Retry(l, response) ==
  LET m == [l EXCEPT !.calls.fetch = @ + 1, !.response = response]
  IN IF ResponseOk(response)
     THEN Returned([m EXCEPT !.apiResponse = ApiResponseText(response.body)],
                   ApiResponseText(response.body) \o m.documentationStatus)
     ELSE IF m.calls.fetch < 2 THEN m
     ELSE Returned([m EXCEPT !.apiResponse = <<WarningPrefix>> \o ApiErrorMessage(response)],
                   <<WarningPrefix>> \o ApiErrorMessage(response) \o m.documentationStatus)

\* Mutant: a failed API call fails the whole invocation.
AfterFetch_Throws(l, response) ==
  LET m == [l EXCEPT !.calls.fetch = @ + 1, !.response = response]
  IN IF ResponseOk(response)
     THEN Returned([m EXCEPT !.apiResponse = ApiResponseText(response.body)],
                   ApiResponseText(response.body) \o m.documentationStatus)
     ELSE Thrown(m, <<"Failed to start context engine: ">>
                      \o ErrorToString(ApiErrorMessage(response)))

\* Mutant: the local status line is left out of the combined response.
AfterFetch_NoStatus(l, response) ==
  LET m == [l EXCEPT !.calls.fetch = @ + 1, !.response = response]
      apiResponse == IF ResponseOk(response) THEN ApiResponseText(response.body)
                     ELSE <<WarningPrefix>> \o ApiErrorMessage(response)
  IN Returned([m EXCEPT !.apiResponse = apiResponse], apiResponse)

\* startContextEngine once makeApiRequest and response.text() settled.
AfterFetch(l, response) ==
  LET m == [l EXCEPT !.calls.fetch = @ + 1, !.response = response]
      apiResponse == IF ResponseOk(response) THEN ApiResponseText(response.body)
                     ELSE <<WarningPrefix>> \o ApiErrorMessage(response)
  IN Returned([m EXCEPT !.apiResponse = apiResponse], apiResponse \o m.documentationStatus)

(***************************************************************************)
(* Actions                                                                 *)
(***************************************************************************)
\* Whether the operation is made to fail from outside.
FaultChoices == IF faults < MaxFaults THEN {FALSE, TRUE} ELSE {FALSE}

\* new Date() was read when createDefaultConfigFiles was entered; the next
\* reading is a later time.
Advance(before, after) ==
  clock' = IF before.pc # "writeFile" /\ after.pc = "writeFile" THEN clock + 1 ELSE clock

\* The HTTP channel is not in use (stdio transport, or a direct call).
\* No function is studied on its own.
NoCall ==
  /\ call = [fn |-> "none"]
  /\ ret = [pc |-> "none"]

NoHttp ==
  /\ httpServer = [state |-> "closed", port |-> 0, initialPort |-> 0, tried |-> <<>>,
                   errors |-> <<>>]
  /\ busyPorts = {}
  /\ sseTransports = {}
  /\ sessions = <<>>
  /\ reqs = [p \in Procs |-> FreeSlot]
  /\ last = NoHandled
  /\ nreq = 0

Init ==
  /\ \E tree \in InitialTrees :
       fs = [dir \in Roots |-> IF dir = Cwd THEN tree ELSE EmptyTree]
  /\ clock = 1
  /\ faults = 0
  /\ orphans = {}
  /\ inv = [p \in Procs |-> Idle]
  /\ ncalls = 0
  /\ NoHttp
  /\ NoCall

\* Concurrent invocations are studied without external failures.
InitConcurrent ==
  /\ \E tree \in InitialTrees :
       fs = [dir \in Roots |-> IF dir = Cwd THEN tree ELSE EmptyTree]
  /\ clock = 1
  /\ faults = MaxFaults
  /\ orphans = {}
  /\ inv = [p \in Procs |-> Idle]
  /\ ncalls = 0
  /\ NoHttp
  /\ NoCall

\* The tool (kind "start"), the synchronizer alone (kind "setup") or the
\* check alone (kind "check") is called.
Call(p, kind, projectRoot) ==
  /\ inv[p].pc = "idle"
  /\ \A q \in Procs : q < p => inv[q].pc # "idle"
  /\ LET l == [Idle EXCEPT !.kind = kind, !.root = projectRoot,
                           !.pre = fs[RootDir(projectRoot)]]
     IN inv' = [inv EXCEPT ![p] = CASE kind = "start" -> startContextEngine(l)
                                     [] kind = "setup" -> setupDocumentationStructure(l)
                                     [] OTHER -> checkDocumentationStructure(l)]
  /\ ncalls' = ncalls + 1
  /\ UNCHANGED <<fs, clock, faults, orphans>>
  /\ UNCHANGED httpVars
  /\ UNCHANGED callVars

\* The caller has the outcome; the locals of the invocation are gone.
Return(p) ==
  /\ inv[p].pc = "done"
  /\ inv' = [inv EXCEPT ![p] = Idle]
  /\ UNCHANGED <<fs, clock, faults, orphans, ncalls>>
  /\ UNCHANGED httpVars
  /\ UNCHANGED callVars

\* await fs.access(path).then(() => true).catch(() => false), the access
\* being rejected from outside or not as `choices` allows.  A rejection is
\* counted in `faults` as long as the budget lasts.
AccessWith(p, choices) ==
  /\ inv[p].pc = "access"
  /\ LET l == inv[p]
         present == Exists(fs[RootDir(l.root)], l.probe)
     IN \E fault \in choices :
          /\ fault => present
          /\ LET next == AfterAccess(l, present /\ ~fault, fault, clock)
             IN /\ inv' = [inv EXCEPT ![p] = next]
                /\ Advance(l, next)
          /\ faults' = IF fault /\ faults < MaxFaults THEN faults + 1 ELSE faults
  /\ UNCHANGED <<fs, orphans, ncalls>>
  /\ UNCHANGED httpVars
  /\ UNCHANGED callVars

Access(p) == AccessWith(p, FaultChoices)

\* await fs.mkdir(basePath, { recursive: true })
MkdirBase(p) ==
  /\ inv[p].pc = "mkdirBase"
  /\ LET l == inv[p]
         dir == RootDir(l.root)
         r == Mkdir(fs[dir], CONTEXT_ENGINE_DIR)
     IN \E fault \in FaultChoices :
          LET ok == r.ok /\ ~fault
              m == [l EXCEPT !.calls.mkdir = @ + 1, !.opFailed = @ \/ ~ok]
          IN /\ fs' = IF ok THEN [fs EXCEPT ![dir] = r.tree] ELSE fs
             /\ faults' = IF fault THEN faults + 1 ELSE faults
             /\ inv' = [inv EXCEPT ![p] =
                  IF ok THEN [m EXCEPT !.pc = "mkdirSubs", !.inflight = SubDirs]
                  ELSE Caught(m, <<"Failed to create documentation structure: ">>
                                   \o ErrorToString(FsErrorMsg))]
  /\ UNCHANGED <<clock, orphans, ncalls>>
  /\ UNCHANGED httpVars
  /\ UNCHANGED callVars

\* One of the three fs.mkdir of the Promise.all settles.
MkdirSub(p, path) ==
  /\ inv[p].pc = "mkdirSubs"
  /\ path \in inv[p].inflight
  /\ LET l == inv[p]
         dir == RootDir(l.root)
         r == Mkdir(fs[dir], path)
         rest == l.inflight \ {path}
     IN \E fault \in FaultChoices :
          LET ok == r.ok /\ ~fault
              m == [l EXCEPT !.calls.mkdir = @ + 1, !.opFailed = @ \/ ~ok, !.inflight = rest]
              next == IF ~ok THEN Caught(m, <<"Failed to create documentation structure: ">>
                                              \o ErrorToString(FsErrorMsg))
                      ELSE IF rest = {} THEN AfterStructure(m, clock)
                      ELSE m
          IN /\ fs' = IF ok THEN [fs EXCEPT ![dir] = r.tree] ELSE fs
             /\ faults' = IF fault THEN faults + 1 ELSE faults
             /\ orphans' = IF ok THEN orphans
                           ELSE orphans \cup {[dir |-> dir, path |-> q, data |-> Dir] : q \in rest}
             /\ inv' = [inv EXCEPT ![p] = next]
             /\ Advance(l, next)
  /\ UNCHANGED ncalls
  /\ UNCHANGED httpVars
  /\ UNCHANGED callVars

\* One of the two fs.writeFile of the Promise.all settles.
WriteConfigFile(p, path) ==
  /\ inv[p].pc = "writeFile"
  /\ path \in inv[p].inflight
  /\ LET l == inv[p]
         dir == RootDir(l.root)
         r == WriteFile(fs[dir], path, DefaultContent(path, l.stamp))
         rest == l.inflight \ {path}
     IN \E fault \in FaultChoices :
          LET ok == r.ok /\ ~fault
              m == [l EXCEPT !.calls.writeFile = @ + 1, !.opFailed = @ \/ ~ok, !.inflight = rest]
          IN /\ fs' = IF ok THEN [fs EXCEPT ![dir] = r.tree] ELSE fs
             /\ faults' = IF fault THEN faults + 1 ELSE faults
             /\ orphans' = IF ok THEN orphans
                           ELSE orphans \cup {[dir |-> dir, path |-> q,
                                                data |-> DefaultContent(q, l.stamp)] : q \in rest}
             /\ inv' = [inv EXCEPT ![p] =
                  IF ~ok THEN ConfigFilesThrow(m, <<"Failed to create default config files: ">>
                                                 \o ErrorToString(FsErrorMsg))
                  ELSE IF rest = {} THEN ConfigFilesReturn(m)
                  ELSE m]
  /\ UNCHANGED <<clock, ncalls>>
  /\ UNCHANGED httpVars
  /\ UNCHANGED callVars

\* An operation whose Promise.all has already rejected settles; nobody
\* looks at its result.
OrphanSettles(o) ==
  /\ o \in orphans
  /\ LET r == IF o.data.type = "dir" THEN Mkdir(fs[o.dir], o.path)
              ELSE WriteFile(fs[o.dir], o.path, o.data)
     IN \E fault \in FaultChoices :
          /\ fs' = IF r.ok /\ ~fault THEN [fs EXCEPT ![o.dir] = r.tree] ELSE fs
          /\ faults' = IF fault THEN faults + 1 ELSE faults
  /\ orphans' = orphans \ {o}
  /\ UNCHANGED <<clock, inv, ncalls>>
  /\ UNCHANGED httpVars
  /\ UNCHANGED callVars

\* await makeApiRequest(url, headers, "start context engine"); await
\* response.text(), the remote side answering with one of `responses`.
FetchWith(p, responses) ==
  /\ inv[p].pc = "fetch"
  /\ \E response \in responses : inv' = [inv EXCEPT ![p] = AfterFetch(inv[p], response)]
  /\ UNCHANGED <<fs, clock, faults, orphans, ncalls>>
  /\ UNCHANGED httpVars
  /\ UNCHANGED callVars

Fetch(p) == FetchWith(p, Responses)

\* No invocation is between its call and its return.
NoneRunning == \A q \in Procs : inv[q].pc = "idle"

Next ==
  \/ \E p \in Procs, kind \in {"start", "setup"}, projectRoot \in RootArgs :
       NoneRunning /\ ncalls < MaxCalls /\ Call(p, kind, projectRoot)
  \/ \E p \in Procs : Return(p)
  \/ \E p \in Procs : Access(p)
  \/ \E p \in Procs : MkdirBase(p)
  \/ \E p \in Procs, path \in SubDirs : MkdirSub(p, path)
  \/ \E p \in Procs, path \in ConfigFiles : WriteConfigFile(p, path)
  \/ \E o \in orphans : OrphanSettles(o)
  \/ \E p \in Procs : Fetch(p)

Spec == Init /\ [][Next]_vars

\* Several Synchronize invocations run against the same root at once.
NextConcurrent ==
  \/ \E p \in Procs : Call(p, "setup", Cwd)
  \/ \E p \in Procs : Access(p)
  \/ \E p \in Procs : MkdirBase(p)
  \/ \E p \in Procs, path \in SubDirs : MkdirSub(p, path)
  \/ \E p \in Procs, path \in ConfigFiles : WriteConfigFile(p, path)

SpecConcurrent == InitConcurrent /\ [][NextConcurrent]_vars

\* createDefaultConfigFiles(projectRoot) is called on its own: the time is
\* read and both writes are started.
CallConfigFiles(p, projectRoot) ==
  /\ inv[p].pc = "idle"
  /\ \A q \in Procs : q < p => inv[q].pc # "idle"
  /\ inv' = [inv EXCEPT ![p] =
               createDefaultConfigFiles([Idle EXCEPT !.kind = "config", !.root = projectRoot,
                                                     !.pre = fs[RootDir(projectRoot)]],
                                        clock)]
  /\ clock' = clock + 1
  /\ ncalls' = ncalls + 1
  /\ UNCHANGED <<fs, faults, orphans>>
  /\ UNCHANGED httpVars
  /\ UNCHANGED callVars

\* createDefaultConfigFiles alone, called again and again on any tree.
NextConfigFiles ==
  \/ \E p \in Procs, projectRoot \in RootArgs :
       NoneRunning /\ ncalls < MaxCalls /\ CallConfigFiles(p, projectRoot)
  \/ \E p \in Procs, path \in ConfigFiles : WriteConfigFile(p, path)
  \/ \E o \in orphans : OrphanSettles(o)
  \/ \E p \in Procs : Return(p)

SpecConfigFiles == Init /\ [][NextConfigFiles]_vars

\* Every checked path exists: the tool finds the layout complete.
CompleteTree ==
  [path \in Paths |-> IF path \in ConfigFiles \cup {USER_ENTRY} THEN UserFile ELSE Dir]

\* The states two project roots are found in: nothing, a layout begun by
\* hand with a user's entry in it, and the complete layout.
PartialTree ==
  [EmptyTree EXCEPT ![CONTEXT_ENGINE_DIR] = Dir, ![IMPLEMENTATION_DIR] = Dir,
                    ![USER_ENTRY] = UserFile]

ScaffoldStates == {EmptyTree, PartialTree, CompleteTree}

InitRoots ==
  /\ fs \in [Roots -> ScaffoldStates]
  /\ clock = 1
  /\ faults = 0
  /\ orphans = {}
  /\ inv = [p \in Procs |-> Idle]
  /\ ncalls = 0
  /\ NoHttp
  /\ NoCall

\* setupDocumentationStructure is called for one root, then for one root or
\* the other; what an invocation left pending may settle during the next.
NextRoots ==
  \/ \E p \in Procs, projectRoot \in Roots \cup {Missing} :
       NoneRunning /\ ncalls < MaxCalls /\ Call(p, "setup", projectRoot)
  \/ \E p \in Procs : Return(p)
  \/ \E p \in Procs : Access(p)
  \/ \E p \in Procs : MkdirBase(p)
  \/ \E p \in Procs, path \in SubDirs : MkdirSub(p, path)
  \/ \E p \in Procs, path \in ConfigFiles : WriteConfigFile(p, path)
  \/ \E o \in orphans : OrphanSettles(o)

SpecRoots == InitRoots /\ [][NextRoots]_vars

\* The check alone, called again and again on any tree, every fs.access
\* of an existing path free to fail.
NextCheck ==
  \/ \E p \in Procs, projectRoot \in RootArgs :
       NoneRunning /\ ncalls < MaxCalls /\ Call(p, "check", projectRoot)
  \/ \E p \in Procs : AccessWith(p, {FALSE, TRUE})
  \/ \E p \in Procs : Return(p)

SpecCheck == Init /\ [][NextCheck]_vars

(***************************************************************************)
(* The HTTP channel: requests, sessions and the tool handler               *)
(***************************************************************************)
\* Bound on the number of requests received in one behaviour.
MaxRequests == 2

\* What the remote side answers while the HTTP channel is studied.
RouterResponses ==
  {NetworkError, [kind |-> "response", status |-> 200, body |-> "Context engine started"]}

\* validateApiKey(apiKey, finalServerUrl) of lib/server-utils: it returns or
\* throws; which, and when, is not settled here.
validateApiKey(apiKey, serverUrl) == {"returns", "throws"}

\* What the protocol library does with a request handed to a transport: it
\* calls the tool handler ("tool"), answers by itself ("reply"), or throws
\* before ("throwsEarly") or after ("throwsLate") it started the response.
LibraryOutcomes(body) ==
  IF body.rpc = "tools/call" THEN {"tool", "throwsEarly", "throwsLate"}
  ELSE {"reply", "throwsEarly"}

\* The listening server with no request yet; the project has its layout.
InitRouter ==
  /\ fs = [dir \in Roots |-> IF dir = Cwd THEN CompleteTree ELSE EmptyTree]
  /\ clock = 1
  /\ faults = MaxFaults
  /\ orphans = {}
  /\ inv = [p \in Procs |-> Idle]
  /\ ncalls = 0
  /\ httpServer = [state |-> "listening", port |-> 3000, initialPort |-> 3000,
                   tried |-> <<3000>>, errors |-> <<>>]
  /\ busyPorts = {}
  /\ sseTransports = {}
  /\ sessions = <<>>
  /\ reqs = [p \in Procs |-> FreeSlot]
  /\ last = NoHandled
  /\ nreq = 0
  /\ NoCall

\* A request arrives and the listener runs up to its first await.  An
\* exception that leaves the listener rejects the promise of the async
\* listener, which nobody handles: the process ends or goes on, as the
\* runtime is set up.
Arrive(p, request) ==
  /\ httpServer.state = "listening"
  /\ nreq < MaxRequests
  /\ reqs[p].pc = "free"
  /\ \A q \in Procs : q < p => reqs[q].pc # "free"
  /\ \E libraryThrows \in BOOLEAN, exits \in BOOLEAN :
       LET step == RequestListener(nreq + 1, request, sseTransports, sessions, libraryThrows)
       IN /\ libraryThrows =>
               /\ step.kind = "ended"
               /\ request.method = "GET"
               /\ request.url.path = "/sse"
          /\ exits => step.kind = "escaped"
          /\ reqs' = [reqs EXCEPT ![p] = step.slot]
          /\ sseTransports' = step.keys
          /\ sessions' = step.sess
          /\ last' = IF step.kind = "pending" THEN last ELSE step.handled
          /\ httpServer' = IF exits THEN [httpServer EXCEPT !.state = "crashed"] ELSE httpServer
  /\ nreq' = nreq + 1
  /\ UNCHANGED busyPorts
  /\ UNCHANGED toolVars
  /\ UNCHANGED callVars

\* `await requestServer.connect(transport)` of handleHttpTransport is over;
\* transport.handleRequest(req, res) is awaited.
McpConnected(p) ==
  /\ httpServer.state = "listening"
  /\ reqs[p].pc = "connect"
  /\ reqs' = [reqs EXCEPT ![p].pc = "handle"]
  /\ UNCHANGED <<httpServer, busyPorts, sseTransports, sessions, last, nreq>>
  /\ UNCHANGED toolVars
  /\ UNCHANGED callVars

\* The handler registered by createServerInstance, run by the instance
\* `server` with the arguments of the call, up to its first await.
ToolHandler(server, body, tree) ==
  startContextEngine([Idle EXCEPT !.kind = "start", !.root = body.projectRoot, !.pre = tree,
                                  !.clientIp = server.clientIp, !.apiKey = server.apiKey,
                                  !.serverUrl = server.serverUrl])

\* The instance whose handler serves the tool call of the request in slot.
ServingInstance(slot) == slot.server

\* The request of slot p was handed to a transport and the library is done
\* with it: for /mcp the response is written unless a tool call is running;
\* for /messages the response is 202 and the tool call runs for the session.
LibraryHandles(p) ==
  /\ httpServer.state = "listening"
  /\ reqs[p].pc \in {"handle", "post"}
  /\ LET slot == reqs[p]
         server == ServingInstance(slot)
         ends(res, threw, started) ==
           Handled(slot.seq, slot.request, res, threw, started, TRUE,
                   IF slot.pc = "handle" THEN 1 ELSE 0, sseTransports, sseTransports, TRUE)
         accepted == [slot.res EXCEPT !.headersSent = TRUE, !.statusCode = 202,
                                      !.body = <<"Accepted">>]
         replied == [slot.res EXCEPT !.headersSent = TRUE, !.statusCode = 200,
                                     !.body = <<"reply of the library">>]
         failed == [slot.res EXCEPT !.headersSent = TRUE, !.statusCode = 200,
                                    !.body = <<"error result: ">> \o <<"validateApiKey threw">>]
     IN \E outcome \in LibraryOutcomes(slot.request.body) :
          CASE outcome = "tool" ->
                 \E valid \in validateApiKey(server.apiKey, server.serverUrl) :
                   IF valid = "throws"
                   THEN /\ reqs' = [reqs EXCEPT ![p] = FreeSlot]
                        /\ last' = ends(IF slot.pc = "post" THEN accepted ELSE failed, "no", FALSE)
                        /\ inv' = inv
                   ELSE /\ reqs' = [reqs EXCEPT ![p].pc = "tool",
                                                ![p].res = IF slot.pc = "post" THEN accepted
                                                           ELSE slot.res]
                        /\ last' = IF slot.pc = "post" THEN ends(accepted, "no", FALSE) ELSE last
                        /\ inv' = [inv EXCEPT ![p] =
                                     ToolHandler(server, slot.request.body, fs[Cwd])]
            [] outcome = "reply" ->
                 /\ reqs' = [reqs EXCEPT ![p] = FreeSlot]
                 /\ last' = ends(IF slot.pc = "post" THEN accepted ELSE replied, "no", FALSE)
                 /\ inv' = inv
            [] outcome = "throwsEarly" ->
                 /\ reqs' = [reqs EXCEPT ![p] = FreeSlot]
                 /\ last' = ends(CatchAll(slot.res), "caught", FALSE)
                 /\ inv' = inv
            [] OTHER ->
                 /\ reqs' = [reqs EXCEPT ![p] = FreeSlot]
                 /\ last' = ends(CatchAll([slot.res EXCEPT !.headersSent = TRUE,
                                                          !.statusCode = 200]),
                                 "caught", TRUE)
                 /\ inv' = inv
  /\ UNCHANGED <<httpServer, busyPorts, sseTransports, sessions, nreq>>
  /\ UNCHANGED <<fs, clock, faults, orphans, ncalls>>
  /\ UNCHANGED callVars

\* The tool handler of the request in slot p has returned or thrown: the
\* library writes the result, as the response of a /mcp request or on the
\* event stream of the session.
ToolDone(p) ==
  /\ httpServer.state = "listening"
  /\ reqs[p].pc = "tool"
  /\ inv[p].pc = "done"
  /\ LET slot == reqs[p]
         result == [slot.res EXCEPT !.headersSent = TRUE, !.statusCode = 200,
                                    !.body = <<inv[p].outcome.type, ": ">> \o inv[p].outcome.text]
     IN last' = IF slot.session = 0
                THEN Handled(slot.seq, slot.request, result, "no", FALSE, TRUE, 1,
                             sseTransports, sseTransports, TRUE)
                ELSE last
  /\ reqs' = [reqs EXCEPT ![p] = FreeSlot]
  /\ inv' = [inv EXCEPT ![p] = Idle]
  /\ UNCHANGED <<httpServer, busyPorts, sseTransports, sessions, nreq>>
  /\ UNCHANGED <<fs, clock, faults, orphans, ncalls>>
  /\ UNCHANGED callVars

\* The slot serves a tool call that was posted to a session.
SessionCall(p) == reqs[p].pc = "tool" /\ reqs[p].session # 0

\* Mutant: the close listener empties the table.
Close_ClearsAll(i) ==
  /\ httpServer.state = "listening"
  /\ i \in 1..Len(sessions)
  /\ sessions[i].open
  /\ sessions' = [sessions EXCEPT ![i].open = FALSE]
  /\ sseTransports' = {}
  /\ UNCHANGED <<httpServer, busyPorts, reqs, last, nreq>>
  /\ UNCHANGED toolVars
  /\ UNCHANGED callVars

\* Mutant: the close listener also drops the tool calls of the session.
Close_Cancelling(i) ==
  /\ httpServer.state = "listening"
  /\ i \in 1..Len(sessions)
  /\ sessions[i].open
  /\ sessions' = [sessions EXCEPT ![i].open = FALSE]
  /\ sseTransports' = sseTransports \ {sessions[i].id}
  /\ reqs' = [p \in Procs |-> IF SessionCall(p) /\ reqs[p].session = i
                              THEN FreeSlot ELSE reqs[p]]
  /\ inv' = [p \in Procs |-> IF SessionCall(p) /\ reqs[p].session = i
                             THEN Idle ELSE inv[p]]
  /\ UNCHANGED <<httpServer, busyPorts, last, nreq>>
  /\ UNCHANGED <<fs, clock, faults, orphans, ncalls>>
  /\ UNCHANGED callVars

\* The connection of session i closes: res.on("close") deletes its entry.
Close(i) ==
  /\ httpServer.state = "listening"
  /\ i \in 1..Len(sessions)
  /\ sessions[i].open
  /\ sessions' = [sessions EXCEPT ![i].open = FALSE]
  /\ sseTransports' = sseTransports \ {sessions[i].id}
  /\ UNCHANGED <<httpServer, busyPorts, reqs, last, nreq>>
  /\ UNCHANGED toolVars
  /\ UNCHANGED callVars

NextRouter ==
  \/ \E p \in Procs, request \in Requests : Arrive(p, request)
  \/ \E p \in Procs : McpConnected(p)
  \/ \E p \in Procs : LibraryHandles(p)
  \/ \E p \in Procs : httpServer.state = "listening" /\ Access(p)
  \/ \E p \in Procs : httpServer.state = "listening" /\ FetchWith(p, RouterResponses)
  \/ \E p \in Procs : ToolDone(p)
  \/ \E i \in 1..MaxRequests : Close(i)

SpecRouter == InitRouter /\ [][NextRouter]_vars

(***************************************************************************)
(* Properties of the tool orchestrator                                     *)
(***************************************************************************)

C6_Idempotent ==
  \A p \in Procs :
    LET l == inv[p]
        tree == fs[RootDir(l.root)]
    IN (l.pc = "done" /\ ~Falsy(l.root) /\ ~l.opFailed)
       => /\ \A path \in CheckedPaths : Exists(tree, path)
          /\ l.setupResult.returned
          /\ l.setupResult.success
          /\ l.setupResult.status = AllTrue
          /\ (\A path \in CheckedPaths : Exists(l.pre, path))
               => /\ l.setupResult.message = AlreadyCompleteMsg
                  /\ l.calls.mkdir = 0
                  /\ l.calls.writeFile = 0

\* The second of two invocations found the files the first one had written.
C6_Witness ==
  \E p \in Procs :
    /\ ncalls = 2
    /\ faults = 0
    /\ inv[p].pc = "done"
    /\ inv[p].kind = "setup"
    /\ inv[p].setupResult.message = AlreadyCompleteMsg
    /\ inv[p].pre[SETTINGS_FILE].doc = "defaultSettings"
    /\ inv[p].pre[WORKFLOWS_FILE].doc = "defaultWorkflows"
    /\ inv[p].calls.mkdir = 0
    /\ inv[p].calls.writeFile = 0

C9_ConfigFilesKept ==
  \A p \in Procs :
    LET l == inv[p]
        tree == fs[RootDir(l.root)]
    IN (l.pc = "done" /\ ~Falsy(l.root) /\ ~l.opFailed)
       => \A f \in ConfigFiles : Exists(l.pre, f) => tree[f] = l.pre[f]

\* C10 (concurrent invocations): with no filesystem operation failing from
\* outside, every Synchronize that has returned reported success with all
\* six flags true, and from its return on all six paths exist - whatever
\* the interleaving with the other invocations on the same root.
C10_ConcurrentConverges ==
  \A p \in Procs :
    LET l == inv[p]
    IN l.pc = "done"
       => /\ l.setupResult.returned
          /\ l.setupResult.success
          /\ l.setupResult.status = AllTrue
          /\ ~l.opFailed
          /\ \A path \in CheckedPaths : Exists(fs[RootDir(l.root)], path)

\* Two invocations both found the layout incomplete and both went through
\* creating directories and writing files.
C10_Witness ==
  /\ \A p \in Procs :
       /\ inv[p].pc = "done"
       /\ inv[p].calls.mkdir = 4
       /\ inv[p].calls.writeFile = 2
       /\ inv[p].setupResult.success
  /\ fs[Cwd][SETTINGS_FILE].created # fs[Cwd][WORKFLOWS_FILE].created

\* C11 (Check never raises): a checkDocumentationStructure called on its own
\* is awaiting an fs.access or has returned - it never throws - and the tree
\* is as it was when it was called; when it has returned and the access to
\* the base directory succeeded, every flag is true exactly if the access to
\* its path succeeded (the path exists and the access was not rejected);
\* when the access to the base directory did not succeed, that was its only
\* access and every flag is false.
C11_CheckNeverRaises ==
  \A p \in Procs :
    LET l == inv[p]
        tree == fs[RootDir(l.root)]
        succeeded(path) == Exists(tree, path) /\ path \notin l.denied
    IN l.kind = "check"
       => /\ l.pc \in {"access", "done"}
          /\ l.outcome.type # "thrown"
          /\ tree = l.pre
          /\ l.calls.mkdir = 0 /\ l.calls.writeFile = 0
          /\ l.pc = "done"
               => /\ l.outcome.type = "returned"
                  /\ IF succeeded(CONTEXT_ENGINE_DIR)
                     THEN /\ l.calls.access = 6
                          /\ \A path \in CheckedPaths : l.status[Flag(path)] = succeeded(path)
                     ELSE /\ l.calls.access = 1
                          /\ l.status = AllFalse

\* The access to the config directory was rejected, the accesses to the two
\* files in it were not.
C11_Witness ==
  \E p \in Procs :
    /\ inv[p].kind = "check"
    /\ inv[p].pc = "done"
    /\ inv[p].denied = {CONFIG_DIR}
    /\ inv[p].status.exists
    /\ ~inv[p].status.config
    /\ inv[p].status.settings
    /\ inv[p].status.workflows

\* C12 (Synchronize never throws): an invocation of the synchronizer with a
\* non-empty root - on its own or by the tool - never ends in an exception;
\* when a directory creation or a config file write of it has failed and it
\* has returned, the result has success=false, its message is "Failed to
\* setup documentation structure: " followed by the error, and its status is
\* the one of the check run in the catch block, after the failure: no flag
\* of it is true of a path that does not exist.
C12_SetupNeverThrows ==
  \A p \in Procs :
    LET l == inv[p]
        tree == fs[RootDir(l.root)]
    IN (l.kind \in {"start", "setup"} /\ l.root \notin {Missing, Empty})
       => /\ ~l.setupResult.thrown
          /\ l.kind = "setup" => l.outcome.type # "thrown"
          /\ (l.error # <<>>) => l.phase = "error"
          /\ (l.pc = "done" /\ l.error # <<>>)
               => /\ l.setupResult.returned
                  /\ ~l.setupResult.success
                  /\ l.setupResult.message =
                       <<"Failed to setup documentation structure: ">> \o ErrorToString(l.error)
                  /\ l.setupResult.status = (IF l.cur.exists THEN l.cur ELSE AllFalse)
                  /\ \A path \in CheckedPaths :
                       l.setupResult.status[Flag(path)] => Exists(tree, path)
                  /\ l.kind = "setup" => l.outcome.type = "returned"

\* A config file write failed after the directories had been made; the
\* status of the failure result shows the directories.
C12_Witness ==
  \E p \in Procs :
    /\ inv[p].kind = "setup"
    /\ inv[p].pc = "done"
    /\ inv[p].pre = EmptyTree
    /\ inv[p].calls.writeFile > 0
    /\ inv[p].error # <<>>
    /\ ~inv[p].setupResult.success
    /\ inv[p].setupResult.status.config
    /\ ~inv[p].setupResult.status.settings

(***************************************************************************)
(* Port fallback of createServerWithFallback                               *)
(***************************************************************************)
\* The default of _maxAttempts.
MaxAttempts == 10

\* --port, or 3000.
InitialPorts == {3000, 8080}

\* Mutant: every error of listen is answered by trying the next port.
ShouldRetry_AnyError(code, port, initialPort) == port < initialPort + MaxAttempts

\* err.code === "EADDRINUSE" && port < initialPort + _maxAttempts
ShouldRetry(code, port, initialPort) ==
  code = "EADDRINUSE" /\ port < initialPort + MaxAttempts

\* main() has called createServerWithFallback(initialPort), and that
\* startServer(initialPort): the error listener is registered and listen
\* has been called.  Any of the ports in reach may be in use.
InitListen ==
  /\ fs = [dir \in Roots |-> EmptyTree]
  /\ clock = 1
  /\ faults = MaxFaults
  /\ orphans = {}
  /\ inv = [p \in Procs |-> Idle]
  /\ ncalls = 0
  /\ \E initialPort \in InitialPorts :
       /\ httpServer = [state |-> "trying", port |-> initialPort, initialPort |-> initialPort,
                        tried |-> <<initialPort>>, errors |-> <<>>]
       /\ busyPorts \in SUBSET (initialPort..(initialPort + MaxAttempts + 1))
  /\ sseTransports = {}
  /\ sessions = <<>>
  /\ reqs = [p \in Procs |-> FreeSlot]
  /\ last = NoHandled
  /\ nreq = 0
  /\ NoCall

\* httpServer.listen(port, ...) succeeds.
Listening ==
  /\ httpServer.state = "trying"
  /\ httpServer.port \notin busyPorts
  /\ httpServer' = [httpServer EXCEPT !.state = "listening"]
  /\ UNCHANGED <<busyPorts, sseTransports, sessions, reqs, last, nreq>>
  /\ UNCHANGED toolVars
  /\ UNCHANGED callVars

\* The server emits "error" for the listen in progress: the listener
\* registered by startServer(port) calls startServer(port + 1) or ends the
\* process.
ListenError(code) ==
  /\ httpServer.state = "trying"
  /\ code = "EADDRINUSE" <=> httpServer.port \in busyPorts
  /\ httpServer' =
       IF ShouldRetry(code, httpServer.port, httpServer.initialPort)
       THEN [httpServer EXCEPT !.port = @ + 1,
                               !.tried = Append(@, httpServer.port + 1),
                               !.errors = Append(@, code)]
       ELSE [httpServer EXCEPT !.state = "exited", !.errors = Append(@, code)]
  /\ UNCHANGED <<busyPorts, sseTransports, sessions, reqs, last, nreq>>
  /\ UNCHANGED toolVars
  /\ UNCHANGED callVars

NextListen ==
  \/ Listening
  \/ \E code \in {"EADDRINUSE", "EACCES"} : ListenError(code)

\* A listen in progress ends with "listening" or with "error".
SpecListen == InitListen /\ [][NextListen]_vars /\ WF_vars(NextListen)

(***************************************************************************)
(* Properties of the transport router                                      *)
(***************************************************************************)
\* The handler that ended last served a request whose URL could be built.
LastParsed == ParseUrl(last.request.url, last.request.host).ok

\* C13 as stated, for the requests whose URL can be built: a POST to
\* /messages without a sessionId, or with an empty one, is answered 400
\* "Missing sessionId parameter"; one whose sessionId is not a key of the
\* session table is answered 400 with a body holding that identifier; in
\* both cases the request is not handed to a transport.
C13_PostRejected ==
  LET request == last.request
      sessionId == request.url.sessionId
  IN (LastParsed /\ request.method = "POST" /\ request.url.path = "/messages")
     => /\ sessionId \in {Missing, Empty}
            => /\ last.res.statusCode = 400
               /\ last.res.body = <<"Missing sessionId parameter">>
               /\ ~last.handedOver
        /\ (sessionId \notin {Missing, Empty} /\ sessionId \notin last.keysBefore)
            => /\ last.res.statusCode = 400
               /\ \E i \in 1..Len(last.res.body) : last.res.body[i] = sessionId
               /\ ~last.handedOver

\* C14 as stated: while the process runs, the keys of the session table are
\* the identifiers of the sessions whose connection has not closed, and a
\* POST to /messages for a session whose connection had closed is answered
\* 400.
C14_SessionLifecycle ==
  /\ httpServer.state = "listening"
       => sseTransports = {sessions[i].id : i \in {j \in 1..Len(sessions) : sessions[j].open}}
  /\ LET request == last.request
     IN (/\ request.method = "POST"
         /\ request.url.path = "/messages"
         /\ \E i \in 1..Len(sessions) :
              sessions[i].id = request.url.sessionId /\ sessions[i].id \notin last.keysBefore)
        => last.res.statusCode = 400

\* The address and the key that are to be read from the headers of a caller.
ExpectedIdentity(headers) ==
  IF headers = HeadersA
  THEN [clientIp |-> <<Addr(FALSE, <<203, 0, 113, 5>>)>>, apiKey |-> <<Text("key-A")>>]
  ELSE [clientIp |-> <<Addr(FALSE, <<198, 51, 100, 7>>)>>, apiKey |-> <<Text("key-B")>>]

\* The tool invocation of slot p works for the caller with these headers:
\* it was given the caller's address and key, and what it has handed to the
\* API client, if anything, is that address and key and the URL of the
\* process-wide base URL.
WorksFor(p, headers) ==
  /\ inv[p].kind = "start"
  /\ inv[p].clientIp = ExpectedIdentity(headers).clientIp
  /\ inv[p].apiKey = ExpectedIdentity(headers).apiKey
  /\ inv[p].serverUrl = EnvServerUrl
  /\ (inv[p].pc = "fetch" \/ inv[p].calls.fetch > 0)
       => inv[p].sent = [url |-> <<EnvServerUrl, "/api/", "start-context-engine">>,
                         clientIp |-> ExpectedIdentity(headers).clientIp,
                         apiKey |-> ExpectedIdentity(headers).apiKey]
  /\ (inv[p].pc # "fetch" /\ inv[p].calls.fetch = 0) => inv[p].sent = NoSent

\* C15 (per-request isolation): every request to /mcp being handled has a
\* server instance made for it and for no other request, and the tool
\* invocation it carries was given, and hands to the API client, the address
\* and the key read from the headers of that very request - whatever other
\* requests are handled at the same time.
C15_PerRequestIsolation ==
  \A p \in Procs :
    (reqs[p].pc \in {"connect", "handle", "tool"} /\ reqs[p].session = 0)
    => /\ reqs[p].server.owner = reqs[p].seq
       /\ \A q \in Procs \ {p} : reqs[q].pc # "free" => reqs[q].server.owner # reqs[p].seq
       /\ reqs[p].pc = "tool" => WorksFor(p, reqs[p].request.headers)

\* Two requests of different callers are served at once, and both API calls
\* have been prepared.
C15_Witness ==
  /\ \A p \in Procs : reqs[p].pc = "tool" /\ reqs[p].session = 0
  /\ reqs[1].request.headers = HeadersA
  /\ reqs[2].request.headers = HeadersB
  /\ inv[1].sent.apiKey = <<Text("key-A")>>
  /\ inv[2].sent.apiKey = <<Text("key-B")>>
  /\ inv[1].calls.fetch = 1
  /\ inv[2].pc = "fetch"

\* C16 (identity of a session): a tool invocation started by a POST to
\* /messages for a session was given, and hands to the API client, the
\* address and the key read from the headers of the GET /sse request that
\* opened the session, and the base URL bound then - not those of the POST.
C16_SessionIdentity ==
  \A p \in Procs :
    (reqs[p].pc = "tool" /\ reqs[p].session # 0)
    => /\ reqs[p].session \in 1..Len(sessions)
       /\ sessions[reqs[p].session].id = reqs[p].request.url.sessionId
       /\ WorksFor(p, sessions[reqs[p].session].request.headers)

\* A session opened by one caller got a message posted by another one.
C16_Witness ==
  \E p \in Procs :
    /\ reqs[p].pc = "tool"
    /\ reqs[p].session = 1
    /\ sessions[1].request.headers = HeadersA
    /\ reqs[p].request.headers = HeadersB
    /\ inv[p].calls.fetch = 1
    /\ inv[p].sent.apiKey = <<Text("key-A")>>
    /\ inv[p].sent.clientIp = <<Addr(FALSE, <<203, 0, 113, 5>>)>>

\* C17 as stated: a request with method OPTIONS gets the CORS headers and a
\* 200 response without a body, and nothing else happens: the caller's
\* address and key are not read, no server instance is made, the session
\* table is not changed and the request is not handed to a transport.
C17_Preflight ==
  last.request.method = "OPTIONS"
  => /\ last.res.cors
     /\ last.res.headersSent
     /\ last.res.statusCode = 200
     /\ last.res.body = <<>>
     /\ last.threw = "no"
     /\ ~last.extracted
     /\ last.instances = 0
     /\ last.keysAfter = last.keysBefore
     /\ ~last.handedOver

\* The (path, method) pairs the router knows, as the claim lists them.
Routed(request) ==
  \/ request.url.path = "/mcp"
  \/ request.url.path = "/sse" /\ request.method = "GET"
  \/ request.url.path = "/messages" /\ request.method = "POST"
  \/ request.url.path = "/ping" /\ request.method = "GET"

\* C18 as stated, for the requests whose URL can be built: a request other
\* than OPTIONS whose path and method are not among the routed ones gets a
\* 404 with a text body and nothing else happens; GET /ping gets 200 "pong"
\* and nothing else happens.
C18_NotFoundAndPing ==
  LET request == last.request
      untouched == /\ last.instances = 0
                   /\ last.keysAfter = last.keysBefore
                   /\ ~last.handedOver
  IN (LastParsed /\ last.seq > 0 /\ request.method # "OPTIONS")
     => /\ ~Routed(request)
            => /\ last.res.statusCode = 404
               /\ last.res.body # <<>>
               /\ untouched
        /\ (request.url.path = "/ping" /\ request.method = "GET")
            => /\ last.res.statusCode = 200
               /\ last.res.body = <<"pong">>
               /\ untouched

\* C19 as stated: no exception leaves the request listener and the process
\* goes on listening; a handler that threw before the response was started
\* has answered 500 "Internal Server Error", one that threw later has left
\* the response as it was.
C19_NoEscape ==
  /\ httpServer.state = "listening"
  /\ last.threw # "escaped"
  /\ (last.threw = "caught" /\ ~last.startedAtThrow)
       => /\ last.res.statusCode = 500
          /\ last.res.body = <<"Internal Server Error">>
  /\ (last.threw = "caught" /\ last.startedAtThrow) => last.res.statusCode # 500

\* The ports listen was called for are initialPort,
\* initialPort + 1, ... in this order, one call at a time, and each but the
\* last was answered by an address-in-use error, the port being in use; the
\* server listens on the port tried last, which is free while all ports
\* tried before - all ports from initialPort up to it - are in use; the
\* process has ended only after a listen failed for another reason or after
\* the ports initialPort .. initialPort + MaxAttempts were all found in use.
PortFallbackOrder ==
  LET h == httpServer
      n == Len(h.tried)
  IN h.state \in {"trying", "listening", "exited"}
     => /\ n >= 1
        /\ \A i \in 1..n : h.tried[i] = h.initialPort + i - 1
        /\ h.port = h.tried[n]
        /\ Len(h.errors) = IF h.state = "exited" THEN n ELSE n - 1
        /\ \A i \in 1..(n - 1) : h.errors[i] = "EADDRINUSE" /\ h.tried[i] \in busyPorts
        /\ h.state = "listening"
             => /\ h.port \notin busyPorts
                /\ \A port \in h.initialPort..(h.port - 1) : port \in busyPorts
        /\ h.state = "exited"
             => \/ h.errors[n] # "EADDRINUSE"
                \/ /\ n = MaxAttempts + 1
                   /\ \A port \in h.initialPort..(h.initialPort + MaxAttempts) :
                        port \in busyPorts

\* C20 (port fallback): the order above holds throughout, and the start of
\* the HTTP channel comes to an end: the server listens or the process has
\* ended.
C20_PortFallback ==
  /\ []PortFallbackOrder
  /\ <>(httpServer.state \in {"listening", "exited"})

\* The first two ports were in use and the server listens on the third.
C20_Witness ==
  /\ httpServer.state = "listening"
  /\ httpServer.initialPort = 3000
  /\ httpServer.port = 3002
  /\ httpServer.tried = <<3000, 3001, 3002>>
  /\ httpServer.errors = <<"EADDRINUSE", "EADDRINUSE">>
  /\ {3000, 3001} \subseteq busyPorts

(***************************************************************************)
(* The functions that read a request, each studied on its own              *)
(***************************************************************************)
\* The number of comma-separated entries of a forwarding header.
MaxEntries == 2

\* What is written between two commas of a forwarding header: nothing, or
\* an address, private or not, IPv4-mapped or not.
EntryBodies ==
  {<<>>,
   <<Addr(FALSE, <<10, 0, 0, 1>>)>>,
   <<Addr(TRUE, <<192, 168, 1, 1>>)>>,
   <<Addr(FALSE, <<172, 16, 0, 1>>)>>,
   <<Addr(FALSE, <<172, 31, 0, 1>>)>>,
   <<Addr(FALSE, <<172, 32, 0, 1>>)>>,
   <<Addr(FALSE, <<203, 0, 113, 5>>)>>,
   <<Addr(TRUE, <<203, 0, 113, 5>>)>>}

\* An entry: its body, with or without blanks around it.
Entries == [padded : BOOLEAN, body : EntryBodies]
EntryText(entry) ==
  IF entry.padded THEN <<Space>> \o entry.body \o <<Space>> ELSE entry.body

\* The header text of a list of entries.
RECURSIVE JoinEntries(_)
JoinEntries(entries) ==
  IF entries = <<>> THEN <<>>
  ELSE IF Len(entries) = 1 THEN EntryText(entries[1])
  ELSE EntryText(entries[1]) \o <<Comma>> \o JoinEntries(Tail(entries))

Listed(n) == UNION {[1..k -> Entries] : k \in 1..n}

\* A request with no header and no socket.
BareHeaders ==
  [forwarded |-> NoHeader, XForwardedFor |-> NoHeader,
   socket |-> FALSE, remoteAddress |-> NoHeader,
   authorization |-> NoHeader,
   ContextEngineAPIKey |-> NoHeader, contextKey |-> NoHeader,
   XAPIKey |-> NoHeader, xApiKey |-> NoHeader]

SocketHeaders ==
  [BareHeaders EXCEPT !.socket = TRUE, !.remoteAddress = Str(<<Addr(TRUE, <<127, 0, 0, 1>>)>>)]

\* The shapes req.socket.remoteAddress comes in.
RemoteAddresses ==
  {NoHeader, Str(<<>>), Str(<<Addr(TRUE, <<192, 168, 1, 2>>)>>),
   Str(<<Addr(FALSE, <<198, 51, 100, 7>>)>>)}

\* The calls of getClientIp: `listed` are the entries of the forwarding
\* header that is read, `headers` the request.
ClientIpCall(listed, headers) == [fn |-> "getClientIp", listed |-> listed, headers |-> headers]

ClientIpCalls ==
  \* the header is a string
  {ClientIpCall(es, [SocketHeaders EXCEPT !.forwarded = Str(JoinEntries(es))]) :
     es \in Listed(MaxEntries)}
  \cup
  \* the header is a list of one or two strings
  {ClientIpCall(es, [SocketHeaders EXCEPT !.forwarded = List(<<JoinEntries(es)>> \o more)]) :
     es \in Listed(MaxEntries), more \in {<<>>, <<<<Addr(FALSE, <<203, 0, 113, 9>>)>>>>}}
  \cup
  \* the header is stored under the name with capitals
  {ClientIpCall(es, [SocketHeaders EXCEPT !.forwarded = low, !.XForwardedFor = Str(JoinEntries(es))]) :
     es \in Listed(1), low \in {NoHeader, Str(<<>>)}}
  \cup
  \* both names are keys
  {ClientIpCall(es, [SocketHeaders EXCEPT !.forwarded = Str(JoinEntries(es)),
                                          !.XForwardedFor = Str(<<Addr(FALSE, <<203, 0, 113, 9>>)>>)]) :
     es \in {es \in Listed(1) : JoinEntries(es) # <<>>}}
  \cup
  \* no header, or an empty one, or an empty list
  {ClientIpCall(<<>>, [BareHeaders EXCEPT !.forwarded = low, !.XForwardedFor = cap,
                                         !.socket = socket, !.remoteAddress = remote]) :
     low \in {NoHeader, Str(<<>>), List(<<>>)}, cap \in {NoHeader, Str(<<>>)},
     socket \in BOOLEAN, remote \in RemoteAddresses}

\* The shapes an Authorization header comes in.
AuthorizationValues ==
  {NoHeader, Str(<<>>), List(<<>>),
   Str(<<Text("Bearer "), Text("key-auth")>>),
   Str(<<Text("Bearer "), Space, Text("key-auth"), Space>>),
   Str(<<Text("Bearer "), Space>>),
   Str(<<Text("Bearer ")>>),
   Str(<<Text("bearer "), Text("key-auth")>>),
   Str(<<Text("Basic abc")>>),
   List(<<<<Text("Bearer "), Text("key-1")>>, <<Text("Bearer "), Text("key-2")>>>>),
   List(<<<<>>, <<Text("Bearer "), Text("key-2")>>>>)}

\* The shapes an API-key header with the given key comes in.
KeyValues(key) ==
  {NoHeader, Str(<<>>), List(<<>>), Str(<<Text(key)>>),
   List(<<<<Text(key)>>, <<Text("second")>>>>)}

\* The calls of extractApiKey.
ApiKeyCalls ==
  {[fn |-> "extractApiKey",
    headers |-> [BareHeaders EXCEPT !.authorization = a, !.ContextEngineAPIKey = b,
                                   !.contextKey = c, !.XAPIKey = d, !.xApiKey = e]] :
     a \in AuthorizationValues, b \in KeyValues("key-CE"), c \in KeyValues("key-ce"),
     d \in KeyValues("key-X"), e \in KeyValues("key-x")}

Pending == [pc |-> "pending"]
Done(out) == [pc |-> "done", out |-> out]

\* getClientIp(req) is called and ends.
ApplyGetClientIp ==
  /\ call.fn = "getClientIp"
  /\ ret = Pending
  /\ ret' = Done(getClientIp(call.headers))
  /\ UNCHANGED <<call, toolVars, httpVars>>

\* extractApiKey(req) is called and ends.
ApplyExtractApiKey ==
  /\ call.fn = "extractApiKey"
  /\ ret = Pending
  /\ ret' = Done(Returns(extractApiKey(call.headers)))
  /\ UNCHANGED <<call, toolVars, httpVars>>

\* The calls of extractBearerToken.
BearerCalls ==
  {[fn |-> "extractBearerToken", header |-> a] :
     a \in AuthorizationValues
           \cup {Str(<<Space, Text("key-auth"), Space>>),
                 Str(<<Text("BEARER "), Text("key-auth")>>),
                 Str(<<Text("Bearer"), Text("key-auth")>>),
                 Str(<<Text("Bearer "), Space, Space, Text("key"), Space, Text("auth"), Space>>),
                 List(<<<<Text("Bearer "), Space, Text("key-1"), Space>>>>),
                 List(<<<<Text("key-1")>>, <<Text("Bearer "), Text("key-2")>>>>)}}

\* extractBearerToken(authHeader) is called and ends.
ApplyExtractBearerToken ==
  /\ call.fn = "extractBearerToken"
  /\ ret = Pending
  /\ ret' = Done(Returns(extractBearerToken(call.header)))
  /\ UNCHANGED <<call, toolVars, httpVars>>

InitExtract ==
  /\ fs = [dir \in Roots |-> EmptyTree]
  /\ clock = 1
  /\ faults = MaxFaults
  /\ orphans = {}
  /\ inv = [p \in Procs |-> Idle]
  /\ ncalls = 0
  /\ NoHttp
  /\ call \in ClientIpCalls \cup ApiKeyCalls \cup BearerCalls
  /\ ret = Pending

NextExtract ==
  \/ ApplyGetClientIp
  \/ ApplyExtractApiKey
  \/ ApplyExtractBearerToken

SpecExtract == InitExtract /\ [][NextExtract]_vars

\* The address an entry names, without the ::ffff: prefix.
Named(body) == IF body = <<>> THEN <<>> ELSE <<Addr(FALSE, body[1].octets)>>

\* The address is in 10.0.0.0/8, 192.168.0.0/16 or 172.16.0.0/12.
InPrivateRange(body) ==
  /\ body # <<>>
  /\ \/ body[1].octets[1] = 10
     \/ body[1].octets[1] = 192 /\ body[1].octets[2] = 168
     \/ body[1].octets[1] = 172 /\ body[1].octets[2] \in 16..31

\* A forwarding header is present in the request of the call.
ForwardingPresent ==
  Truthy(call.headers.forwarded) \/ Truthy(call.headers.XForwardedFor)

\* C21 (client address resolution): with a forwarding header present the
\* result is the first listed address, trimmed and without ::ffff:, that is
\* outside the three private ranges, or the first listed address when all
\* are private; without one it is the socket's remote address without
\* ::ffff:, or undefined when there is none.
C21_AddressResolution ==
  (call.fn = "getClientIp" /\ ret.pc = "done") =>
    LET listed == call.listed
        public == {i \in 1..Len(listed) : ~InPrivateRange(listed[i].body)}
        first == CHOOSE i \in public : \A j \in public : i <= j
    IN /\ ~ret.out.threw
       /\ IF ForwardingPresent
          THEN /\ listed # <<>>
               /\ ret.out.value = IF public # {} THEN Named(listed[first].body)
                                  ELSE Named(listed[1].body)
          ELSE IF call.headers.socket /\ Truthy(call.headers.remoteAddress)
               THEN ret.out.value = Named(call.headers.remoteAddress.items[1])
               ELSE ret.out.value = NoValue

\* C22 (client address extraction never throws): whatever the shape of the
\* forwarding header and of the socket, getClientIp returns.
C22_NeverThrows ==
  (call.fn = "getClientIp" /\ ret.pc = "done") => ~ret.out.threw

\* The five credential headers of the call, in the order of the claim.
CredentialHeaders ==
  <<call.headers.authorization, call.headers.ContextEngineAPIKey, call.headers.contextKey,
    call.headers.XAPIKey, call.headers.xApiKey>>

\* The first element of a header value (the value itself when it is a
\* string), "" when there is none.
FirstElement(value) == IF value.items = <<>> THEN <<>> ELSE value.items[1]

\* The credential derived from header number i: the first element, for
\* Authorization without the prefix "Bearer " and the blanks around the rest.
Derived(i) ==
  LET first == FirstElement(CredentialHeaders[i])
  IN IF i = 1 /\ first # <<>> /\ first[1] = Text("Bearer ")
     THEN Trim(SubSeq(first, 2, Len(first)))
     ELSE first

\* C23 as stated (first present wins): the credential is derived from the
\* first of the five headers that is present, from the Authorization header
\* whenever that one is present, and there is none when none is present.
\* (A result that is undefined and one that is "" are not told apart here.)
C23_Original ==
  (call.fn = "extractApiKey" /\ ret.pc = "done") =>
    LET present == {i \in 1..5 : CredentialHeaders[i].shape # "absent"}
        first == CHOOSE i \in present : \A j \in present : i <= j
    IN ret.out.value = IF present = {} THEN NoValue ELSE Derived(first)

\* C23 as amended (first non-empty wins): the credential is the one derived
\* from the first of the five headers, in the order Authorization,
\* ContextEngine-API-Key, context-engine-api-key, X-API-Key, x-api-key, whose
\* derived credential is not empty; a list contributes its first element;
\* there is no credential exactly when none of the five yields one.
C23_FirstNonEmptyWins ==
  (call.fn = "extractApiKey" /\ ret.pc = "done") =>
    LET yielding == {i \in 1..5 : Derived(i) # <<>>}
        first == CHOOSE i \in yielding : \A j \in yielding : i <= j
    IN /\ ~ret.out.threw
       /\ ret.out.value = IF yielding = {} THEN NoValue ELSE Derived(first)

\* An Authorization header with a prefix and blanks and three other
\* headers, one of them a list: the credential is the trimmed token.
C23_Witness ==
  /\ call.fn = "extractApiKey"
  /\ ret.pc = "done"
  /\ call.headers.authorization = Str(<<Text("Bearer "), Space, Text("key-auth"), Space>>)
  /\ call.headers.xApiKey = Str(<<Text("key-x")>>)
  /\ call.headers.XAPIKey.shape = "list"
  /\ call.headers.contextKey # NoHeader
  /\ ret.out.value = <<Text("key-auth")>>

(***************************************************************************)
(* One server instance and the base URL of its remote calls                *)
(***************************************************************************)
\* The number of tool invocations made on the instance.
MaxInvocations == 3

\* The values of --server-url and of CONTEXT_ENGINE_SERVER_URL.
CliValues == {Missing, Empty, "https://cli.example"}
EnvValues == {Missing, Empty, "https://env.example", "https://ce.example"}

InitInstance ==
  /\ fs = [dir \in Roots |-> EmptyTree]
  /\ clock = 1
  /\ faults = MaxFaults
  /\ orphans = {}
  /\ inv = [p \in Procs |-> Idle]
  /\ ncalls = 0
  /\ NoHttp
  /\ call \in {[fn |-> "createServerInstance", cli |-> c, env |-> e] :
                 c \in CliValues, e \in EnvValues}
  /\ ret = Pending

\* main (stdio) or a connection handler makes the instance.
CreateInstance ==
  /\ call.fn = "createServerInstance"
  /\ ret = Pending
  /\ ret' = [pc |-> "created",
             server |-> createServerInstanceWith(call.env, 0, NoValue, NoValue, call.cli),
             remoteCalls |-> <<>>]
  /\ UNCHANGED <<call, toolVars, httpVars>>

\* The tool handler of the instance runs startContextEngine with the values
\* it closes over; when the local setup succeeds the request is prepared.
InvokeTool(setupSucceeds) ==
  /\ ret.pc = "created"
  /\ Len(ret.remoteCalls) < MaxInvocations
  /\ LET l == [Idle EXCEPT !.kind = "start", !.root = "/a",
                           !.clientIp = ret.server.clientIp, !.apiKey = ret.server.apiKey,
                           !.serverUrl = ret.server.serverUrl]
         made == IF setupSucceeds THEN PrepareRequest(l).sent ELSE NoSent
     IN ret' = [ret EXCEPT !.remoteCalls = Append(@, made)]
  /\ UNCHANGED <<call, toolVars, httpVars>>

NextInstance ==
  \/ CreateInstance
  \/ \E setupSucceeds \in BOOLEAN : InvokeTool(setupSucceeds)

SpecInstance == InitInstance /\ [][NextInstance]_vars

\* The base URL the precedence of the claim gives.
ExpectedBaseUrl ==
  IF call.cli \notin {Missing, Empty} THEN call.cli
  ELSE IF call.env \notin {Missing, Empty} THEN call.env
  ELSE "https://contextengine.in"

\* C24 (base URL precedence): the instance is bound to the value of the
\* command line when one is given, else to the value of the environment when
\* one is set, else to https://contextengine.in, and every remote call of
\* every invocation on it goes to that base URL.
C24_BaseUrlPrecedence ==
  (call.fn = "createServerInstance" /\ ret.pc = "created") =>
    /\ ret.server.serverUrl = ExpectedBaseUrl
    /\ \A i \in 1..Len(ret.remoteCalls) :
         ret.remoteCalls[i] # NoSent
           => ret.remoteCalls[i].url = <<ExpectedBaseUrl, "/api/", "start-context-engine">>

\* Both values are given and two invocations have made their remote call.
C24_Witness ==
  /\ call.fn = "createServerInstance"
  /\ call.cli = "https://cli.example"
  /\ call.env = "https://env.example"
  /\ ret.pc = "created"
  /\ Len(ret.remoteCalls) >= 2
  /\ ret.remoteCalls[1] # NoSent
  /\ ret.remoteCalls[2] # NoSent

(***************************************************************************)
(* The headers of a remote call                                            *)
(***************************************************************************)
\* The header names a caller of generateHeaders may pass and the built-in
\* rules set.
HeaderNames == {"Authorization", "mcp-client-ip", "X-ContextEngine-Source"}

\* Headers are a value for each name, <<>> where the name is not a key.
NoHeaders == [name \in HeaderNames |-> <<>>]

\* The value sent for the client address: the address in encrypted form.
Encrypted(clientIp) == <<Text("encrypted:")>> \o clientIp

\* Mutant: the extra headers are merged last.
generateHeaders_ExtraLast(clientIp, apiKey, extraHeaders) ==
  [name \in HeaderNames |->
     IF extraHeaders[name] # <<>> THEN extraHeaders[name]
     ELSE IF name = "mcp-client-ip" /\ clientIp # NoValue THEN Encrypted(clientIp)
     ELSE IF name = "Authorization" /\ apiKey # NoValue THEN <<Text("Bearer ")>> \o apiKey
     ELSE <<>>]

\* generateHeaders(clientIp, apiKey, extraHeaders): the extra headers, then
\* the client-address header when an address is given, then the
\* Authorization header when a credential is given.
generateHeaders(clientIp, apiKey, extraHeaders) ==
  [name \in HeaderNames |->
     IF name = "mcp-client-ip" /\ clientIp # NoValue THEN Encrypted(clientIp)
     ELSE IF name = "Authorization" /\ apiKey # NoValue THEN <<Text("Bearer ")>> \o apiKey
     ELSE extraHeaders[name]]

\* The calls of generateHeaders.
HeaderCalls ==
  {[fn |-> "generateHeaders", clientIp |-> ip, apiKey |-> key, extraHeaders |-> extra] :
     ip \in {NoValue, <<Addr(FALSE, <<192, 168, 1, 1>>)>>, <<Addr(FALSE, <<203, 0, 113, 5>>)>>},
     key \in {NoValue, <<Text("test-api-key")>>, <<Text("key-B")>>},
     extra \in [HeaderNames -> {<<>>, <<Text("custom-value")>>, <<Text("Custom-Auth custom-value")>>}]}

InitHeaders ==
  /\ fs = [dir \in Roots |-> EmptyTree]
  /\ clock = 1
  /\ faults = MaxFaults
  /\ orphans = {}
  /\ inv = [p \in Procs |-> Idle]
  /\ ncalls = 0
  /\ NoHttp
  /\ call \in HeaderCalls
  /\ ret = Pending

ApplyGenerateHeaders ==
  /\ call.fn = "generateHeaders"
  /\ ret = Pending
  /\ ret' = Done(generateHeaders(call.clientIp, call.apiKey, call.extraHeaders))
  /\ UNCHANGED <<call, toolVars, httpVars>>

NextHeaders ==
  \/ ApplyGenerateHeaders

SpecHeaders == InitHeaders /\ [][NextHeaders]_vars

\* C25 (outbound header construction): with an address given the
\* client-address header is the built-in one, with a credential given the
\* Authorization header is "Bearer " and the credential, whatever the extra
\* headers say under these names; without a credential the built-in rule
\* makes no Authorization header, and with neither address nor credential
\* nor extra headers there is no header at all.
C25_BuiltInPrecedence ==
  (call.fn = "generateHeaders" /\ ret.pc = "done") =>
    /\ call.clientIp # NoValue
         => ret.out["mcp-client-ip"] = <<Text("encrypted:")>> \o call.clientIp
    /\ call.apiKey # NoValue
         => ret.out["Authorization"] = <<Text("Bearer ")>> \o call.apiKey
    /\ call.apiKey = NoValue
         => ret.out["Authorization"] = call.extraHeaders["Authorization"]
    /\ call.clientIp = NoValue
         => ret.out["mcp-client-ip"] = call.extraHeaders["mcp-client-ip"]
    /\ (call.clientIp = NoValue /\ call.apiKey = NoValue /\ call.extraHeaders = NoHeaders)
         => ret.out = NoHeaders

\* Address and credential are given and the extra headers carry both names.
C25_Witness ==
  /\ call.fn = "generateHeaders"
  /\ ret.pc = "done"
  /\ call.clientIp = <<Addr(FALSE, <<192, 168, 1, 1>>)>>
  /\ call.apiKey = <<Text("test-api-key")>>
  /\ call.extraHeaders["Authorization"] = <<Text("Custom-Auth custom-value")>>
  /\ call.extraHeaders["mcp-client-ip"] = <<Text("custom-value")>>
  /\ ret.out["Authorization"] = <<Text("Bearer "), Text("test-api-key")>>

(***************************************************************************)
(* The operations of the remote client                                     *)
(***************************************************************************)
\* handleApiError of the client of the versioned lookup API (/api/v1).
handleApiErrorLookup(errorCode, operation) ==
  CASE errorCode = 429 -> <<"Rate limited due to too many requests. Please try again later.">>
    [] errorCode = 401 -> <<"Unauthorized. Please check your API key.">>
    [] errorCode = 404 -> <<"The library you are trying to access does not exist. Please try with a different library ID.">>
    [] OTHER -> <<"Failed to ", operation, ". Please try again later. Error code: ", ToString(errorCode)>>

\* An error object and `${error}`.
Error(name, message) == [name |-> name, message |-> message]
NoError == Error("", <<>>)
FetchFailed == Error("TypeError", <<"fetch failed">>)
JsonFailed == Error("SyntaxError", <<"Unexpected token < in JSON">>)
ErrorString(error) == <<error.name, ": ">> \o error.message

\* What the remote side answers to the one request of an operation; parses
\* tells whether the body is JSON.
ClientStatuses == {200, 204, 304, 401, 403, 404, 429, 500}
ClientBodies == Bodies \cup {"Hello"}
ClientResponses ==
  {[kind |-> "reject", status |-> 0, body |-> "", parses |-> FALSE]}
    \cup {[kind |-> "response", status |-> status, body |-> b, parses |-> parses] :
            status \in ClientStatuses, b \in ClientBodies, parses \in BOOLEAN}

\* Mutant: the status of the response is not looked at.
makeApiRequest_NoCheck(response, operation, lookup) ==
  IF response.kind = "reject" THEN [threw |-> TRUE, error |-> FetchFailed]
  ELSE [threw |-> FALSE, error |-> NoError]

\* makeApiRequest(url, headers, operation) once fetch has settled with
\* response; lookup tells which of the two clients is meant.
makeApiRequest(response, operation, lookup) ==
  IF response.kind = "reject" THEN [threw |-> TRUE, error |-> FetchFailed]
  ELSE IF ~ResponseOk(response)
  THEN [threw |-> TRUE,
        error |-> Error("Error", IF lookup THEN handleApiErrorLookup(response.status, operation)
                                 ELSE handleApiError(response.status, operation))]
  ELSE [threw |-> FALSE, error |-> NoError]

\* What an operation ends in.
ReturnsText(text) == [threw |-> FALSE, type |-> "text", text |-> text]
ReturnsNull == [threw |-> FALSE, type |-> "null", text |-> <<>>]
ReturnsJson(body) == [threw |-> FALSE, type |-> "json", text |-> <<body>>]
ReturnsNoResults(error) == [threw |-> FALSE, type |-> "noResults", text |-> error]
ThrowsError(message) == [threw |-> TRUE, type |-> "error", text |-> message]

\* searchLibraries after its request has settled.
searchLibraries(response) ==
  LET request == makeApiRequest(response, "search libraries", TRUE)
  IN IF request.threw
     THEN ReturnsNoResults(<<"Error searching libraries: ">> \o ErrorString(request.error))
     ELSE IF ~response.parses
     THEN ReturnsNoResults(<<"Error searching libraries: ">> \o ErrorString(JsonFailed))
     ELSE ReturnsJson(response.body)

\* fetchLibraryDocumentation after its request has settled.
fetchLibraryDocumentation(response) ==
  LET request == makeApiRequest(response, "fetch documentation", TRUE)
      text == response.body
  IN IF request.threw
     THEN ReturnsText(<<"Error fetching library documentation. Please try again later. ">>
                      \o ErrorString(request.error))
     ELSE IF text = "" \/ text = "No content available" \/ text = "No context data available"
     THEN ReturnsNull
     ELSE ReturnsText(<<text>>)

\* Mutant: the body is parsed outside the try block.
checkHealth_ParseOutside(response) ==
  LET request == makeApiRequest(response, "check health", TRUE)
  IN IF request.threw
     THEN ReturnsText(<<"Health check failed: ">> \o ErrorString(request.error))
     ELSE IF ~response.parses THEN ThrowsError(ErrorString(JsonFailed))
     ELSE ReturnsJson(response.body)

\* checkHealth after its request has settled.
checkHealth(response) ==
  LET request == makeApiRequest(response, "check health", TRUE)
  IN IF request.threw
     THEN ReturnsText(<<"Health check failed: ">> \o ErrorString(request.error))
     ELSE IF ~response.parses
     THEN ReturnsText(<<"Health check failed: ">> \o ErrorString(JsonFailed))
     ELSE ReturnsJson(response.body)

GreetFallback == <<"Hello! API is working but no greeting content available.">>

\* Mutant: both sentinel texts count as no content.
greet_BothSentinels(response, lookup) ==
  LET request == makeApiRequest(response, "send greeting", lookup)
      text == response.body
  IN IF request.threw
     THEN IF lookup THEN ReturnsText(<<"Greeting failed: ">> \o ErrorString(request.error))
          ELSE ThrowsError(<<"Failed to send greeting: ">> \o ErrorString(request.error))
     ELSE IF text = "" \/ text = "No content available" \/ text = "No context data available"
     THEN ReturnsText(GreetFallback)
     ELSE ReturnsText(<<text>>)

\* greet after its request has settled: the one of the lookup client
\* returns the error text, the other one throws it.
greet(response, lookup) ==
  LET request == makeApiRequest(response, "send greeting", lookup)
      text == response.body
  IN IF request.threw
     THEN IF lookup THEN ReturnsText(<<"Greeting failed: ">> \o ErrorString(request.error))
          ELSE ThrowsError(<<"Failed to send greeting: ">> \o ErrorString(request.error))
     ELSE IF text = "" \/ text = "No content available"
     THEN ReturnsText(GreetFallback)
     ELSE ReturnsText(<<text>>)

\* startContextEngine(clientIp, apiKey, serverUrl), the operation that only
\* makes the remote call, after its request has settled.
startContextEngineRemote(response) ==
  LET request == makeApiRequest(response, "start context engine", FALSE)
      text == response.body
  IN IF request.threw
     THEN ThrowsError(<<"Failed to start context engine: ">> \o ErrorString(request.error))
     ELSE ReturnsText(ApiResponseText(text))

\* The operations, with the client each belongs to.
ClientOperations ==
  {[name |-> "searchLibraries", operation |-> "search libraries", lookup |-> TRUE],
   [name |-> "fetchLibraryDocumentation", operation |-> "fetch documentation", lookup |-> TRUE],
   [name |-> "checkHealth", operation |-> "check health", lookup |-> TRUE],
   [name |-> "greet", operation |-> "send greeting", lookup |-> TRUE],
   [name |-> "greet", operation |-> "send greeting", lookup |-> FALSE],
   [name |-> "startContextEngine", operation |-> "start context engine", lookup |-> FALSE]}

InitClient ==
  /\ fs = [dir \in Roots |-> EmptyTree]
  /\ clock = 1
  /\ faults = MaxFaults
  /\ orphans = {}
  /\ inv = [p \in Procs |-> Idle]
  /\ ncalls = 0
  /\ NoHttp
  /\ call \in {[fn |-> "client", op |-> op] : op \in ClientOperations}
  /\ ret = [pc |-> "pending", requests |-> 0]

\* The operation builds URL and headers and awaits fetch.
SendRequest ==
  /\ call.fn = "client"
  /\ ret.pc = "pending"
  /\ ret' = [pc |-> "fetch", requests |-> ret.requests + 1]
  /\ UNCHANGED <<call, toolVars, httpVars>>

\* fetch settles and the operation runs to its end.
RequestSettles(response) ==
  /\ call.fn = "client"
  /\ ret.pc = "fetch"
  /\ ret' = [pc |-> "done", requests |-> ret.requests, response |-> response,
             request |-> makeApiRequest(response, call.op.operation, call.op.lookup),
             out |-> CASE call.op.name = "searchLibraries" -> searchLibraries(response)
                       [] call.op.name = "fetchLibraryDocumentation" ->
                            fetchLibraryDocumentation(response)
                       [] call.op.name = "checkHealth" -> checkHealth(response)
                       [] call.op.name = "greet" -> greet(response, call.op.lookup)
                       [] OTHER -> startContextEngineRemote(response)]
  /\ UNCHANGED <<call, toolVars, httpVars>>

NextClient ==
  \/ SendRequest
  \/ \E response \in ClientResponses : RequestSettles(response)

SpecClient == InitClient /\ [][NextClient]_vars

\* C26 (error normalization): a response with a status outside 200..299
\* makes makeApiRequest throw an error whose message is the rate-limited
\* one for 429, the unauthorized one for 401, the not-found one for 404
\* (about the library on the lookup client) and the generic one with the
\* operation and the status otherwise, whatever the body; a response with a
\* status in 200..299 makes it throw nothing.
C26_ErrorNormalization ==
  (call.fn = "client" /\ ret.pc = "done" /\ ret.response.kind = "response") =>
    LET status == ret.response.status
    IN IF status \in 200..299
       THEN ~ret.request.threw
       ELSE /\ ret.request.threw
            /\ ret.request.error.name = "Error"
            /\ ret.request.error.message =
                 CASE status = 429 ->
                        <<"Rate limited due to too many requests. Please try again later.">>
                   [] status = 401 -> <<"Unauthorized. Please check your API key.">>
                   [] status = 404 /\ call.op.lookup ->
                        <<"The library you are trying to access does not exist. Please try with a different library ID.">>
                   [] status = 404 /\ ~call.op.lookup ->
                        <<"API endpoint not found. Please check the server URL and endpoint path.">>
                   [] OTHER ->
                        <<"Failed to ", call.op.operation,
                          ". Please try again later. Error code: ", ToString(status)>>

\* The lookup client got 404 with a body and threw the library wording.
C26_Witness ==
  /\ call.fn = "client"
  /\ ret.pc = "done"
  /\ call.op.name = "fetchLibraryDocumentation"
  /\ ret.response.kind = "response"
  /\ ret.response.status = 404
  /\ ret.response.body = "Hello"
  /\ ret.request.threw

\* The operations that return the text of the response.
TextOperations == {"greet", "startContextEngine", "fetchLibraryDocumentation"}

\* The fallback message of an operation.
Fallback(name) ==
  IF name = "greet" THEN <<"Hello! API is working but no greeting content available.">>
  ELSE <<"Context engine start request sent but no confirmation available.">>

\* The response of the call is a success.
Succeeded == ret.response.kind = "response" /\ ret.response.status \in 200..299

\* C27 as stated (content normalization): every text-returning operation
\* replaces a body that is empty or "No content available" by its fallback
\* message and returns the body "No context data available" as it is.
C27_Original ==
  (call.fn = "client" /\ ret.pc = "done" /\ call.op.name \in TextOperations /\ Succeeded) =>
    /\ ret.response.body \in {"", "No content available"}
         => ret.out = [threw |-> FALSE, type |-> "text", text |-> Fallback(call.op.name)]
    /\ ret.response.body = "No context data available"
         => ret.out = [threw |-> FALSE, type |-> "text", text |-> <<"No context data available">>]

\* C27 as amended: greet and the start operation replace a body that is
\* empty or "No content available" by their fallback message and return
\* the body "No context data available" as it is; the documentation lookup
\* returns null for an empty body and for either of the two texts.
C27_ContentNormalization ==
  (call.fn = "client" /\ ret.pc = "done" /\ call.op.name \in TextOperations /\ Succeeded) =>
    IF call.op.name = "fetchLibraryDocumentation"
    THEN ret.response.body \in {"", "No content available", "No context data available"}
           => (~ret.out.threw /\ ret.out.type = "null")
    ELSE /\ ret.response.body \in {"", "No content available"}
              => ret.out = [threw |-> FALSE, type |-> "text", text |-> Fallback(call.op.name)]
         /\ ret.response.body = "No context data available"
              => ret.out = [threw |-> FALSE, type |-> "text",
                            text |-> <<"No context data available">>]

\* greet got "No context data available" and returned it.
C27_Witness ==
  /\ call.fn = "client"
  /\ ret.pc = "done"
  /\ call.op.name = "greet"
  /\ Succeeded
  /\ ret.response.body = "No context data available"
  /\ ret.out.text = <<"No context data available">>

\* The read-style operations, and those of them that parse the body.
ReadOperations == {"checkHealth", "searchLibraries", "fetchLibraryDocumentation"}
ParsingOperations == {"checkHealth", "searchLibraries"}

\* The text in front of the error in what a read-style operation returns.
ErrorPrefix(name) ==
  CASE name = "checkHealth" -> "Health check failed: "
    [] name = "searchLibraries" -> "Error searching libraries: "
    [] OTHER -> "Error fetching library documentation. Please try again later. "

Token(flag, value) == [flag |-> flag, value |-> value]

\* The ways an option with the given value is written: not at all, as two
\* elements, or as one.
Written(flag, value) ==
  {<<>>, <<Token(flag, Missing), Token("", value)>>, <<Token(flag, value)>>}

\* The command lines asking for a transport: each option written in one of
\* the ways, the transport first or last.
LinesFor(t) ==
  {[transport |-> t, argv |-> tr \o key \o port] :
     tr \in Written("--transport", t),
     key \in Written("--api-key", "key-A"),
     port \in Written("--port", "8080")}
  \cup
  {[transport |-> t, argv |-> port \o key \o tr] :
     tr \in Written("--transport", t),
     key \in Written("--api-key", "key-A"),
     port \in Written("--port", "8080")}

CommandLines == UNION {LinesFor(t) : t \in {"stdio", "http", "sse"}}

\* The value commander finds for an option, fallback if it is not written.
OptionValue(argv, flag, fallback) ==
  IF \E i \in 1..Len(argv) : argv[i].flag = flag
  THEN LET i == CHOOSE i \in 1..Len(argv) :
                  /\ argv[i].flag = flag
                  /\ \A j \in (i + 1)..Len(argv) : argv[j].flag # flag
       IN IF argv[i].value # Missing THEN argv[i].value
          ELSE IF i < Len(argv) /\ argv[i + 1].flag = "" THEN argv[i + 1].value
          ELSE fallback
  ELSE fallback

\* program.option(...).parse(process.argv).opts()
ParseOptions(argv) ==
  [transport |-> OptionValue(argv, "--transport", "stdio"),
   port |-> OptionValue(argv, "--port", "3000"),
   apiKey |-> OptionValue(argv, "--api-key", Missing)]

\* process.argv.includes(flag)
Includes(argv, flag) == \E i \in 1..Len(argv) : argv[i] = Token(flag, Missing)

\* validateCliOptions(options): TRUE when it returns, FALSE when it calls
\* process.exit(1).
validateCliOptions(options, argv) ==
  /\ options.transport \in {"stdio", "http"}
  /\ ~(options.transport = "http" /\ Includes(argv, "--api-key"))
  /\ ~(options.transport = "stdio" /\ Includes(argv, "--port"))

InitCli ==
  /\ fs = [dir \in Roots |-> EmptyTree]
  /\ clock = 1
  /\ faults = MaxFaults
  /\ orphans = {}
  /\ inv = [p \in Procs |-> Idle]
  /\ ncalls = 0
  /\ NoHttp
  /\ call \in {[fn |-> "cli", line |-> line] : line \in CommandLines}
  /\ ret = [pc |-> "loaded", options |-> ParseOptions(call.line.argv), exitCode |-> 0,
            transport |-> "none", listenPort |-> Missing]

\* The options are validated: the process exits or goes on.
ValidateOptions ==
  /\ call.fn = "cli"
  /\ ret.pc = "loaded"
  /\ ret' = IF validateCliOptions(ret.options, call.line.argv)
            THEN [ret EXCEPT !.pc = "validated"]
            ELSE [ret EXCEPT !.pc = "exited", !.exitCode = 1]
  /\ UNCHANGED <<call, toolVars, httpVars>>

\* main(): the HTTP server is created and listen is called for the port of
\* the command line, or the stdio transport is connected.
Main ==
  /\ call.fn = "cli"
  /\ ret.pc = "validated"
  /\ ret' = IF ret.options.transport = "http"
            THEN [ret EXCEPT !.pc = "serving", !.transport = "http",
                             !.listenPort = ret.options.port]
            ELSE [ret EXCEPT !.pc = "serving", !.transport = "stdio"]
  /\ UNCHANGED <<call, toolVars, httpVars>>

NextCli ==
  \/ ValidateOptions
  \/ Main

SpecCli == InitCli /\ [][NextCli]_vars

\* The option is given on the command line, in either way of writing it.
Given(flag) == \E i \in 1..Len(call.line.argv) : call.line.argv[i].flag = flag

\* The transport the command line asks for.
AskedTransport == IF Given("--transport") THEN call.line.transport ELSE "stdio"

\* C29 (CLI validation precedes serving): with a transport other than stdio
\* and http, with --api-key together with the http transport, or with --port
\* together with the stdio transport, the process exits with status 1 and
\* never starts a transport or calls listen.
C29_CliValidation ==
  (/\ call.fn = "cli"
   /\ \/ AskedTransport \notin {"stdio", "http"}
      \/ AskedTransport = "http" /\ Given("--api-key")
      \/ AskedTransport = "stdio" /\ Given("--port"))
  => /\ ret.pc \in {"loaded", "exited"}
     /\ ret.pc = "exited" => ret.exitCode = 1
     /\ ret.transport = "none"
     /\ ret.listenPort = Missing

(***************************************************************************)
(* A session whose connection closes while its tool call runs             *)
(***************************************************************************)
\* The requests of a session: the subscription and the tool calls posted
\* to it.
SessionRequests ==
  {Request("GET", Url("/sse", Missing), GoodHost, h, OtherBody) : h \in {HeadersA, HeadersB}}
  \cup
  {Request("POST", Url("/messages", sid), GoodHost, h, ToolCallBody) :
     sid \in {"1", "2"}, h \in {HeadersA, HeadersB}}

\* The steps of the server while sessions are subscribed, posted to and
\* closed.
NextSession ==
  \/ \E p \in Procs, request \in SessionRequests : Arrive(p, request)
  \/ \E p \in Procs : LibraryHandles(p)
  \/ \E p \in Procs : httpServer.state = "listening" /\ Access(p)
  \/ \E p \in Procs : httpServer.state = "listening" /\ FetchWith(p, RouterResponses)
  \/ \E p \in Procs : ToolDone(p)
  \/ \E i \in 1..MaxRequests : Close(i)

\* The event loop runs the continuation of every promise that settles: the
\* filesystem answers each probe and the request to the remote side is
\* answered or fails.
SpecSession ==
  /\ InitRouter
  /\ [][NextSession]_vars
  /\ \A p \in Procs :
       /\ WF_vars(httpServer.state = "listening" /\ Access(p))
       /\ WF_vars(httpServer.state = "listening" /\ FetchWith(p, RouterResponses))

\* The connection of the session that the tool call of slot p was posted to
\* has closed.
ClosedUnder(p) == SessionCall(p) /\ ~sessions[reqs[p].session].open

\* The handler of the tool call of slot p has returned its result.
RanToCompletion(p) == inv[p].pc = "done" /\ inv[p].outcome # NoOutcome

\* C30 (no cancellation): when the connection of a session closes, its entry
\* leaves the table and the tool calls of the session are left as they are;
\* every tool call of a session, closed or not, goes on until its handler
\* has returned its result.
C30_NoCancellation ==
  /\ [][\A i \in 1..MaxRequests :
          (i \in 1..Len(sessions) /\ sessions[i].open /\ ~sessions'[i].open)
          => /\ sessions[i].id \notin sseTransports'
             /\ inv' = inv
             /\ \A p \in Procs : SessionCall(p) => reqs'[p] = reqs[p]]_vars
  /\ \A p \in Procs : SessionCall(p) ~> RanToCompletion(p)

\* The connection has closed and the tool call has made its remote call and
\* returned.
C30_Witness ==
  \E p \in Procs : ClosedUnder(p) /\ RanToCompletion(p) /\ inv[p].sent # NoSent

(***************************************************************************)
(* Properties added for the tool's response and the synchronizer's steps   *)
(***************************************************************************)
\* The synchronizer of the tool invocation l has failed.
SetupFailed(l) ==
  /\ l.kind = "start"
  /\ ~Falsy(l.root)
  /\ l.pc = "done"
  /\ \/ l.setupResult.thrown
     \/ l.setupResult.returned /\ ~l.setupResult.success

C33_OverwriteSameShape ==
  \A p \in Procs :
    LET l == inv[p]
        tree == fs[RootDir(l.root)]
    IN (l.kind = "config" /\ l.pc = "done" /\ l.outcome.type = "returned")
       => \A f \in ConfigFiles :
            /\ tree[f].type = "file"
            /\ [tree[f] EXCEPT !.created = 0] = DefaultContent(f, 0)
            /\ tree[f].created \in 1..l.stamp
            /\ l.pre[f].type = "file" => tree[f] # l.pre[f]

\* A second call has replaced the documents of the first, made over a file
\* of the user, by documents with a later creation time.
C33_Witness ==
  \E p \in Procs :
    /\ inv[p].kind = "config"
    /\ inv[p].pc = "done"
    /\ inv[p].outcome.type = "returned"
    /\ ncalls = 2
    /\ inv[p].pre[SETTINGS_FILE] = DefaultContent(SETTINGS_FILE, 1)
    /\ fs[Cwd][SETTINGS_FILE] = DefaultContent(SETTINGS_FILE, 2)
    /\ fs[Cwd][WORKFLOWS_FILE] = DefaultContent(WORKFLOWS_FILE, 2)

\* The value with the blanks at both ends taken off, told without trimming:
\* a stretch of the value with only blanks before and after it and none at
\* its own ends.
IsTrimOf(out, value) ==
  \E i \in 1..(Len(value) + 1), j \in 0..Len(value) :
    /\ out = SubSeq(value, i, j)
    /\ \A k \in 1..Len(value) : (k < i \/ k > j) => value[k] = Space
    /\ out # <<>> => out[1] # Space /\ out[Len(out)] # Space

\* C34 (bearer token): a missing header yields no value; a header given as
\* a list counts as its first element; a value that starts with the very
\* text "Bearer " yields what follows it, trimmed; any other value - one
\* with the prefix in another case too - is returned unchanged.
C34_BearerToken ==
  (call.fn = "extractBearerToken" /\ ret.pc = "done")
  => LET given == call.header
         value == IF given.items = <<>> THEN <<>> ELSE given.items[1]
         out == ret.out.value
     IN /\ ~ret.out.threw
        /\ given.shape = "absent" => out = NoValue
        /\ (value # <<>> /\ value[1] = Text("Bearer "))
             => IsTrimOf(out, SubSeq(value, 2, Len(value)))
        /\ (value # <<>> /\ value[1] # Text("Bearer ")) => out = value
        /\ value = <<>> => out = NoValue

\* The first element of a list, with blanks around the token, was stripped
\* of the prefix and trimmed.
C34_Witness ==
  /\ call.fn = "extractBearerToken"
  /\ ret.pc = "done"
  /\ call.header = List(<<<<Text("Bearer "), Space, Text("key-1"), Space>>>>)
  /\ ret.out.value = <<Text("key-1")>>

\* C35 as stated (attempt bound): the number of calls of listen made by the
\* port fallback is at most _maxAttempts throughout, and the start of the
\* HTTP channel comes to an end, listening or exited.
C35_AttemptBound ==
  /\ [](Len(httpServer.tried) <= MaxAttempts)
  /\ <>(httpServer.state \in {"listening", "exited"})

\* C36 as stated (success means complete): whenever the synchronizer has
\* returned success=true, the status it returns has all six flags true.
C36_SuccessIsComplete ==
  \A p \in Procs :
    (inv[p].setupResult.returned /\ inv[p].setupResult.success)
    => inv[p].setupResult.status = AllTrue

\* A status whose base-directory flag is false has every flag false.
WellFormedStatus(status) == ~status.exists => status = AllFalse

\* C37 (well-formed status): every status a Check has returned - the initial
\* one, and the final or error one the synchronizer hands on - is well
\* formed; and a Check whose access to the base directory finds nothing
\* (the directory is not there, or the access is rejected) makes no further
\* access: it has returned in that very step.
C37_WellFormedStatus ==
  /\ [](\A p \in Procs :
          /\ WellFormedStatus(inv[p].status)
          /\ inv[p].setupResult.returned => WellFormedStatus(inv[p].setupResult.status))
  /\ [][\A p \in Procs :
          (/\ inv[p].pc = "access"
           /\ inv[p].probe = CONTEXT_ENGINE_DIR
           /\ inv'[p] # inv[p]
           /\ ~inv'[p].cur.exists)
          => /\ inv'[p].calls.access = inv[p].calls.access + 1
             /\ inv'[p].pc = "access" => inv'[p].phase # inv[p].phase
             /\ inv'[p].pc = "access" => inv'[p].probe = CONTEXT_ENGINE_DIR]_vars

\* The synchronizer found no base directory at its initial check, made the
\* layout and got every flag from its final check.
C37_Witness ==
  \E p \in Procs :
    /\ inv[p].pc = "done"
    /\ inv[p].status = AllFalse
    /\ ~Exists(inv[p].pre, CONTEXT_ENGINE_DIR)
    /\ inv[p].setupResult.returned
    /\ inv[p].setupResult.status = AllTrue
    /\ inv[p].calls.access = 7

\* The identifiers given to sessions so far.
GivenIds == {sessions[i].id : i \in 1..Len(sessions)}

\* The step is the arrival of a GET /sse request, which adds one entry under
\* an identifier not given before.
AddsSession ==
  /\ nreq' = nreq + 1
  /\ Len(sessions') = Len(sessions) + 1
  /\ SubSeq(sessions', 1, Len(sessions)) = sessions
  /\ LET new == sessions'[Len(sessions')]
     IN /\ new.request.method = "GET"
        /\ new.request.url.path = "/sse"
        /\ new.open
        /\ new.id \notin GivenIds \cup sseTransports
        /\ sseTransports' = sseTransports \cup {new.id}

\* The step is the close of the connection of one live session, which
\* removes the entry of that session and no other.
RemovesSession ==
  \E i \in 1..Len(sessions) :
    /\ sessions[i].open
    /\ sessions' = [sessions EXCEPT ![i].open = FALSE]
    /\ sseTransports' = sseTransports \ {sessions[i].id}
    /\ nreq' = nreq

\* C38 (frame of the session table): a step that changes the table or the
\* sessions is the handling of a GET /sse request, adding one entry under a
\* fresh identifier, or the close of one session's connection, removing that
\* session's entry; every other step - requests to /mcp, /messages and /ping,
\* OPTIONS requests, 404 and 500 answers, the steps of tool invocations -
\* leaves the table as it is, and so does every handler that ended for a
\* request other than GET /sse; hence every session whose connection is open
\* stays in the table and is found by a lookup.
C38_TableFrame ==
  /\ [][(sseTransports' # sseTransports \/ sessions' # sessions)
        => (AddsSession \/ RemovesSession)]_vars
  /\ []((last.seq # 0 /\ ~(last.request.method = "GET" /\ last.request.url.path = "/sse"))
        => last.keysAfter = last.keysBefore)
  /\ [](\A i \in 1..Len(sessions) :
          sessions[i].open
          => sessions[i].id \in sseTransports
             /\ TableLookup(sseTransports, sessions[i].id) = "transport")

\* Of two sessions the first has closed; the second is still in the table.
C38_Witness ==
  /\ Len(sessions) = 2
  /\ ~sessions[1].open
  /\ sessions[2].open
  /\ sseTransports = {sessions[2].id}
  /\ sessions[1].id # sessions[2].id

(***************************************************************************)
(* Properties added for the synchronizer's effects on the filesystem       *)
(***************************************************************************)
\* The paths of root `dir` that a step changes.
Touched(dir) == {path \in Paths : fs'[dir][path] # fs[dir][path]}

\* An invocation for `dir` is running (projectRoot || cwd()), or an
\* operation that such an invocation started is still pending.
WorkingOn(dir) ==
  \/ \E p \in Procs :
       /\ inv[p].pc # "idle"
       /\ \/ inv[p].root = dir
          \/ inv[p].root \in {Missing, Empty} /\ dir = Cwd
  \/ \E o \in orphans : o.dir = dir

============================================================================
